---- MODULE Spec2Model ----
(***************************************************************************)
(* Word-to-HTML converter: the document normalisation pipeline             *)
(*   sanitize -> clean -> mode transforms -> format                        *)
(* modelled over document trees and formatted text.                        *)
(*                                                                         *)
(* An HTML string that travels between two stages is represented by the    *)
(* tree the browser's parser builds from it; the text the formatter        *)
(* writes is a sequence of tags and characters.  A string is a sequence    *)
(* of lexemes (words, punctuation, white space), so that trimming, prefix  *)
(* / suffix tests, substring tests and concatenation are computed and      *)
(* never assumed.  Input domain: text without '<' and '&' characters, URLs *)
(* without percent escapes, no heading nested in a heading, no li inside   *)
(* a strong, no pre-formatted text.                                        *)
(***************************************************************************)
EXTENDS Integers, Sequences, FiniteSets, TLC

VARIABLES doc,      \* the document the last operation produced (a tree)
          prev,     \* the document the last operation was given
          op,       \* name of the last operation
          steps,    \* number of operations applied so far
          base,     \* protocol of window.location.href
          currentMode,      \* the output mode selected in the page
          currentHtmlText,  \* the formatted text shown as HTML code
          featureFlags,     \* the features argument of ModeProcessor.process
          domParser,        \* typeof DOMParser and typeof document are not 'undefined'
          raised,           \* the DOM approach of the last formatCompact call threw
          checkboxes        \* checked state of the feature checkboxes of the page, by group

vars == <<doc, prev, op, steps, base, currentMode, currentHtmlText, featureFlags,
          domParser, raised, checkboxes>>

-----------------------------------------------------------------------------
(* Strings as sequences of lexemes *)

\* white space of String.prototype.trim and of \s on DOM text (U+00A0 included)
IsWs(l) == l \in {"sp", "nbsp", "nl"}

\* white space of \s on serialised markup, where U+00A0 is written "&nbsp;"
IsHtmlWs(l) == l \in {"sp", "nl"}

\* String.prototype.trim
Trim(s) ==
    IF \A i \in 1..Len(s) : IsWs(s[i]) THEN <<>>
    ELSE SubSeq(s, CHOOSE i \in 1..Len(s) : ~IsWs(s[i]) /\ \A j \in 1..(i - 1) : IsWs(s[j]),
                   CHOOSE i \in 1..Len(s) : ~IsWs(s[i]) /\ \A j \in (i + 1)..Len(s) : IsWs(s[j]))

\* text.replace(/^\s+/, '')
TrimStart(s) ==
    IF \A i \in 1..Len(s) : IsWs(s[i]) THEN <<>>
    ELSE SubSeq(s, CHOOSE i \in 1..Len(s) : ~IsWs(s[i]) /\ \A j \in 1..(i - 1) : IsWs(s[j]),
                   Len(s))

\* text.replace(/\s+$/, '')
TrimEnd(s) ==
    IF \A i \in 1..Len(s) : IsWs(s[i]) THEN <<>>
    ELSE SubSeq(s, 1,
                CHOOSE i \in 1..Len(s) : ~IsWs(s[i]) /\ \A j \in (i + 1)..Len(s) : IsWs(s[j]))

\* String.prototype.toLowerCase on the lexemes that have an upper-case form
Lower(s) ==
    [i \in 1..Len(s) |->
        CASE s[i] \in {"Key Takeaways", "KEY TAKEAWAYS"} -> "key takeaways"
          [] s[i] = "Sources" -> "sources"
          [] s[i] = "Disclaimer" -> "disclaimer"
          [] s[i] = "Read also" -> "read also"
          [] s[i] = "Alt Image Text" -> "alt image text"
          [] s[i] = "FAQ" -> "faq"
          [] OTHER -> s[i]]

StartsWith(s, p) == Len(s) >= Len(p) /\ SubSeq(s, 1, Len(p)) = p

EndsWith(s, p) == Len(s) >= Len(p) /\ SubSeq(s, Len(s) - Len(p) + 1, Len(s)) = p

\* String.prototype.includes: p occurs as a contiguous run of s
Includes(s, p) == \E i \in 1..(Len(s) - Len(p) + 1) : SubSeq(s, i, i + Len(p) - 1) = p

\* String.prototype.split on a one-lexeme separator
RECURSIVE Split(_, _)
Split(s, sep) ==
    IF \A i \in 1..Len(s) : s[i] # sep THEN <<s>>
    ELSE LET k == CHOOSE i \in 1..Len(s) : s[i] = sep /\ \A j \in 1..(i - 1) : s[j] # sep
         IN  <<SubSeq(s, 1, k - 1)>> \o Split(SubSeq(s, k + 1, Len(s)), sep)

-----------------------------------------------------------------------------
(* Nodes and trees *)

NoAttrs == <<>>

Elem(t, a, k) == [tag |-> t, attrs |-> a, kids |-> k, text |-> <<>>]

El(t, k) == Elem(t, NoAttrs, k)

Txt(s) == [tag |-> "#text", attrs |-> NoAttrs, kids |-> <<>>, text |-> s]

Null == [tag |-> "#null", attrs |-> NoAttrs, kids |-> <<>>, text |-> <<>>]

IsText(n) == n.tag = "#text"

IsElement(n) == n.tag # "#text" /\ n.tag # "#null"

HEADING_TAGS == {"h1", "h2", "h3", "h4", "h5", "h6"}

\* Element.children: the element children of a child list
ElementChildren(k) == SelectSeq(k, IsElement)

RECURSIVE textContent(_), textContentOf(_)
\* Node.textContent of one node
textContent(n) == IF IsText(n) THEN n.text ELSE textContentOf(n.kids)
\* concatenated textContent of a child list
textContentOf(k) == IF k = <<>> THEN <<>> ELSE textContent(Head(k)) \o textContentOf(Tail(k))

RECURSIVE DescendantsOf(_)
\* querySelectorAll('*') below a child list: every element, in document order
DescendantsOf(k) ==
    IF k = <<>> THEN <<>>
    ELSE (IF IsText(Head(k)) THEN <<>> ELSE <<Head(k)>> \o DescendantsOf(Head(k).kids))
         \o DescendantsOf(Tail(k))

Range(s) == {s[i] : i \in 1..Len(s)}

\* every element of a document, as a set
AllElements(d) == Range(DescendantsOf(d))

RECURSIVE Normalize(_)
\* What serialising a tree and parsing it again does to a child list:
\* adjacent text nodes become one, empty text nodes disappear.
Normalize(k) ==
    IF k = <<>> THEN <<>>
    ELSE IF ~IsText(Head(k))
         THEN <<[Head(k) EXCEPT !.kids = Normalize(@)]>> \o Normalize(Tail(k))
    ELSE IF Head(k).text = <<>> THEN Normalize(Tail(k))
    ELSE IF Len(k) > 1 /\ IsText(k[2])
         THEN Normalize(<<Txt(Head(k).text \o k[2].text)>> \o SubSeq(k, 3, Len(k)))
    ELSE <<Head(k)>> \o Normalize(Tail(k))

-----------------------------------------------------------------------------
(* Positions in a document: a path is the sequence of child indices that
   leads from the body to a node *)

RECURSIVE ElementPaths(_)
\* querySelectorAll('*'): the paths of all elements below the child list k,
\* in document order
ElementPaths(k) ==
    IF k = <<>> THEN <<>>
    ELSE ElementPaths(SubSeq(k, 1, Len(k) - 1))
         \o (IF IsElement(k[Len(k)])
             THEN <<<<Len(k)>>>> \o [j \in 1..Len(ElementPaths(k[Len(k)].kids)) |->
                                        <<Len(k)>> \o ElementPaths(k[Len(k)].kids)[j]]
             ELSE <<>>)

RECURSIVE NodeAt(_, _)
NodeAt(k, p) == IF Len(p) = 1 THEN k[p[1]] ELSE NodeAt(k[p[1]].kids, Tail(p))

RECURSIVE KidsAt(_, _)
\* the child list of the node at path p (of the body for the empty path)
KidsAt(k, p) == IF p = <<>> THEN k ELSE KidsAt(k[p[1]].kids, Tail(p))

RECURSIVE ReplaceKids(_, _, _)
\* the document with the child list of the node at path p replaced
ReplaceKids(k, p, nk) ==
    IF p = <<>> THEN nk
    ELSE [k EXCEPT ![p[1]].kids = ReplaceKids(k[p[1]].kids, Tail(p), nk)]

\* parentNode and the index in it
ParentPath(p) == SubSeq(p, 1, Len(p) - 1)

IndexOf(p) == p[Len(p)]

\* the document with the node at path p replaced by n
ReplaceNode(d, p, n) ==
    ReplaceKids(d, ParentPath(p), [KidsAt(d, ParentPath(p)) EXCEPT ![IndexOf(p)] = n])

RemoveAt(k, i) == SubSeq(k, 1, i - 1) \o SubSeq(k, i + 1, Len(k))

InsertAt(k, i, n) == SubSeq(k, 1, i - 1) \o <<n>> \o SubSeq(k, i, Len(k))

\* nextElementSibling: the first index after i (0 for none) of an element in k
NextElementIndex(k, i) ==
    IF \E j \in (i + 1)..Len(k) : IsElement(k[j])
    THEN CHOOSE j \in (i + 1)..Len(k) :
            IsElement(k[j]) /\ \A m \in (i + 1)..(j - 1) : ~IsElement(k[m])
    ELSE 0

\* previousElementSibling: the last index before i (0 for none) of an element
PrevElementIndex(k, i) ==
    IF \E j \in 1..(i - 1) : IsElement(k[j])
    THEN CHOOSE j \in 1..(i - 1) :
            IsElement(k[j]) /\ \A m \in (j + 1)..(i - 1) : ~IsElement(k[m])
    ELSE 0

-----------------------------------------------------------------------------
(* HTML Sanitizer: src/js/core/sanitizer.js *)

ALLOWED_ELEMENTS == {"h1", "h2", "h3", "h4", "h5", "h6", "p", "br", "hr",
                     "ul", "ol", "li", "em", "i", "strong", "b", "sup", "sub",
                     "a", "img", "blockquote", "pre", "code",
                     "table", "thead", "tbody", "tr", "th", "td"}

ALLOWED_ATTRIBUTES(tagName) == CASE tagName = "a" -> {"href"}
                                 [] tagName = "img" -> {"src", "alt"}
                                 [] OTHER -> {}

SAFE_PROTOCOLS == {"http:", "https:", "mailto:"}

RECURSIVE CollapseHyphens(_)
\* /-+/g -> '-', then /\/-+/g -> '/' and /-+\//g -> '/'
CollapseHyphens(u) ==
    IF Len(u) < 2 THEN u
    ELSE IF u[1] = "-" /\ u[2] = "-" THEN CollapseHyphens(Tail(u))
    ELSE IF u[1] = "/" /\ u[2] = "-" THEN CollapseHyphens(<<"/">> \o Tail(Tail(u)))
    ELSE IF u[1] = "-" /\ u[2] = "/" THEN CollapseHyphens(Tail(u))
    ELSE <<u[1]>> \o CollapseHyphens(Tail(u))

\* cleanUrl: dash-like characters and white space become hyphens; the URL is
\* rebuilt as origin + path of new URL(cleaned, location) only when that
\* changed it.  b is the protocol of window.location.href.
cleanUrl(url, b) ==
    LET cleaned == CollapseHyphens([i \in 1..Len(url) |->
                       IF url[i] \in {"endash", "emdash", "sp", "nbsp", "nl"} THEN "-" ELSE url[i]])
    IN  IF cleaned = url \/ cleaned = <<>> THEN url
        ELSE IF Head(cleaned) \in {"http:", "https:"} THEN cleaned
        ELSE IF Head(cleaned) \in {"mailto:", "javascript:", "data:", "file:"}
             THEN <<"null">> \o Tail(cleaned)
        ELSE IF b \in {"http:", "https:"} THEN <<b, "//page">> \o cleaned
        ELSE <<"null">> \o cleaned

\* isSafeUrl: relative URLs that start with '/' or '#' are safe, any other
\* URL by the protocol of new URL(url, window.location.href)
isSafeUrl(url, b) ==
    IF url = <<>> THEN FALSE
    ELSE IF Head(url) \in {"/", "#"} THEN TRUE
    ELSE IF Head(url) \in {"http:", "https:", "mailto:", "javascript:", "data:", "file:"}
         THEN Head(url) \in SAFE_PROTOCOLS
    ELSE b \in SAFE_PROTOCOLS

\* sanitizeAttributes without the per-tag allow-list test
sanitizeAttributesNoAllowList(element, b) ==
    [element EXCEPT !.attrs =
        [a \in {x \in DOMAIN element.attrs :
                  /\ x \notin {"style", "class", "id", "dir", "role", "aria-level",
                               "data-x", "onclick"}
                  /\ (x \in {"href", "src"} => isSafeUrl(cleanUrl(element.attrs[x], b), b))}
         |-> element.attrs[a]]]

\* sanitizeAttributes: style, class, data-*, on*, id, dir, role and aria-level
\* always go, so does what the allow-list of the tag lacks; href and src are
\* cleaned and kept when safe
sanitizeAttributes(element, b) ==
    [element EXCEPT !.attrs =
        [a \in {x \in DOMAIN element.attrs :
                  /\ x \notin {"style", "class", "id", "dir", "role", "aria-level",
                               "data-x", "onclick"}
                  /\ x \in ALLOWED_ATTRIBUTES(element.tag)
                  /\ (x \in {"href", "src"} => isSafeUrl(cleanUrl(element.attrs[x], b), b))}
         |-> IF a \in {"href", "src"} THEN cleanUrl(element.attrs[a], b)
             ELSE element.attrs[a]]]

\* styleObj[name]: style.split(';'), each rule split at ':' and trimmed, kept
\* when it has exactly two parts; the last rule for a property wins; <<>>
\* stands for undefined
StyleValue(style, name) ==
    LET rules == SelectSeq(Split(style, ";"), LAMBDA r : Len(Split(r, ":")) = 2)
        hits  == {i \in 1..Len(rules) : Lower(Trim(Split(rules[i], ":")[1])) = <<name>>}
    IN  IF hits = {} THEN <<>>
        ELSE Trim(Split(rules[CHOOSE i \in hits : \A j \in hits : j <= i], ":")[2])

isItalic(style) ==
    LET v == StyleValue(style, "font-style") IN v # <<>> /\ Includes(Lower(v), <<"italic">>)

\* parseInt of the weights that occur is the number they spell
isBold(style) ==
    LET v == StyleValue(style, "font-weight")
    IN  v # <<>> /\ (Lower(v) = <<"bold">> \/ v \in {<<"700">>, <<"800">>, <<"900">>})

isSuperscript(style) ==
    LET v == StyleValue(style, "vertical-align")
    IN  v # <<>> /\ (\/ Lower(v) = <<"super">>
                     \/ Includes(v, <<"super">>)
                     \/ Includes(v, <<"35%">>)
                     \/ Includes(v, <<"0.6">>))

isSubscript(style) ==
    LET v == StyleValue(style, "vertical-align")
    IN  v # <<>> /\ (\/ Lower(v) = <<"sub">>
                     \/ Includes(v, <<"sub">>)
                     \/ Includes(v, <<"-", "35%">>)
                     \/ Includes(v, <<"-", "0.6">>))

\* element.getAttribute('style') || ''
StyleOf(element) == IF "style" \in DOMAIN element.attrs THEN element.attrs["style"] ELSE <<>>

WrapIf(c, t, k) == IF c THEN <<El(t, k)>> ELSE k

\* the wrappers nested the other way round: em around strong
BuildWrappersInsideOut(children, italic, bold, superscript, subscript) ==
    IF ~italic /\ ~bold /\ ~superscript /\ ~subscript THEN Null
    ELSE Head(WrapIf(superscript, "sup",
              WrapIf(~superscript /\ subscript, "sub",
                 WrapIf(italic, "em", WrapIf(bold, "strong", children)))))

\* sup/sub (outermost) > strong > em (innermost) around the children;
\* Null when no formatting style is present
BuildWrappers(children, italic, bold, superscript, subscript) ==
    IF ~italic /\ ~bold /\ ~superscript /\ ~subscript THEN Null
    ELSE Head(WrapIf(superscript, "sup",
              WrapIf(~superscript /\ subscript, "sub",
                 WrapIf(bold, "strong", WrapIf(italic, "em", children)))))

\* replacement element for an element with formatting styles, Null if none
convertFormattingToSemanticTags(element) ==
    IF StyleOf(element) = <<>> THEN Null
    ELSE BuildWrappers(element.kids,
                       isItalic(StyleOf(element)), isBold(StyleOf(element)),
                       isSuperscript(StyleOf(element)), isSubscript(StyleOf(element)))

\* unwrapElement: the children take the element's position
unwrapElement(element) == element.kids

RECURSIVE sanitizeElement(_, _), sanitizeNode(_, _), sanitizeDisallowed(_, _, _)
\* sanitizeElement on a child list: every element child is processed in
\* order, text nodes are kept as they are
sanitizeElement(k, b) ==
    IF k = <<>> THEN <<>>
    ELSE (IF IsText(Head(k)) THEN <<Head(k)>> ELSE sanitizeNode(Head(k), b))
         \o sanitizeElement(Tail(k), b)
\* one iteration of the forEach: the nodes that stand in the place of node.
\* An allowed element with an italic or bold style gets its sanitized
\* children wrapped in strong > em, em or strong, then loses its attributes.
sanitizeNode(node, b) ==
    IF node.tag \notin ALLOWED_ELEMENTS
    THEN sanitizeDisallowed(
            convertFormattingToSemanticTags([node EXCEPT !.kids = sanitizeElement(node.kids, b)]),
            [node EXCEPT !.kids = sanitizeElement(node.kids, b)], b)
    ELSE <<sanitizeAttributes(
              [node EXCEPT !.kids = WrapIf(isBold(StyleOf(node)), "strong",
                                       WrapIf(isItalic(StyleOf(node)), "em",
                                              sanitizeElement(node.kids, b)))], b)>>
\* the disallowed branch, given the replacement and the element with its
\* sanitized children: the replacement is sanitized again, or the element is
\* unwrapped
sanitizeDisallowed(semanticReplacement, inner, b) ==
    IF semanticReplacement # Null
    THEN <<[semanticReplacement EXCEPT !.kids = sanitizeElement(semanticReplacement.kids, b)]>>
    ELSE unwrapElement(inner)

\* HTMLSanitizer.sanitize: sanitizeElement, then a single root child that is
\* a disallowed element or a span without attributes is unwrapped
sanitize(d, b) ==
    LET t == sanitizeElement(d, b)
    IN  IF /\ Len(ElementChildren(t)) = 1
           /\ \/ ElementChildren(t)[1].tag \notin ALLOWED_ELEMENTS
              \/ ElementChildren(t)[1].tag = "span" /\ DOMAIN ElementChildren(t)[1].attrs = {}
        THEN Normalize(ElementChildren(t)[1].kids)
        ELSE Normalize(t)

-----------------------------------------------------------------------------
(* Mode utility: link attributes (ModeLinkAttributes) *)

\* the rel value with tok appended unless rel includes it as a substring
AppendUnlessIncluded(rel, newRel, tok) ==
    IF ~Includes(rel, <<tok>>)
    THEN (IF newRel # <<>> THEN newRel \o <<"sp", tok>> ELSE <<tok>>)
    ELSE newRel

\* the attributes of a link after the forEach body: target="_blank" unless
\* a target is present; rel "noopener noreferrer" when absent, else the
\* tokens that rel does not include are appended
LinkAttrs(attrs) ==
    [n \in DOMAIN attrs \cup {"target", "rel"} |->
        IF n = "rel"
        THEN (IF "rel" \notin DOMAIN attrs THEN <<"noopener", "sp", "noreferrer">>
              ELSE AppendUnlessIncluded(attrs["rel"],
                       AppendUnlessIncluded(attrs["rel"], attrs["rel"], "noopener"),
                       "noreferrer"))
        ELSE IF n = "target" /\ "target" \notin DOMAIN attrs THEN <<"_blank">>
        ELSE attrs[n]]

RECURSIVE LinkNodes(_)
\* the forEach over querySelectorAll('a[href]')
LinkNodes(k) ==
    [i \in 1..Len(k) |->
        IF IsText(k[i]) THEN k[i]
        ELSE [k[i] EXCEPT !.kids = LinkNodes(k[i].kids),
                          !.attrs = IF k[i].tag = "a" /\ "href" \in DOMAIN k[i].attrs
                                    THEN LinkAttrs(k[i].attrs) ELSE @]]

\* ModeLinkAttributes.add
addLinkAttributes(d) == Normalize(LinkNodes(d))

-----------------------------------------------------------------------------
(* Mode utilities: key takeaways formatting (ModeKeyTakeaways) and H1
   removal (ModeH1Removal) *)

\* the h2 elements whose trimmed, lower-cased text includes 'key takeaways',
\* in document order; the search loop breaks at the first
KeyTakeawaysPaths(d) ==
    SelectSeq(ElementPaths(d),
              LAMBDA p : /\ NodeAt(d, p).tag = "h2"
                         /\ Includes(Lower(Trim(textContent(NodeAt(d, p)))), <<"key takeaways">>))

\* the while loop over nextElementSibling: the first ul after index i, or 0
FirstUlAfter(k, i) ==
    IF \E j \in (i + 1)..Len(k) : k[j].tag = "ul"
    THEN CHOOSE j \in (i + 1)..Len(k) :
            k[j].tag = "ul" /\ \A m \in (i + 1)..(j - 1) : k[m].tag # "ul"
    ELSE 0

RECURSIVE removeEmTopLevelOnly(_)
\* only the em elements that are children of the element are unwrapped
removeEmTopLevelOnly(k) ==
    IF k = <<>> THEN <<>>
    ELSE (IF Head(k).tag = "em" THEN Head(k).kids ELSE <<Head(k)>>)
         \o removeEmTopLevelOnly(Tail(k))

RECURSIVE removeEmTags(_)
\* removeEmTags on the child list of an element: every em below it is
\* replaced in place by its children
removeEmTags(k) ==
    IF k = <<>> THEN <<>>
    ELSE (IF Head(k).tag = "em" THEN removeEmTags(Head(k).kids)
          ELSE IF IsElement(Head(k)) THEN <<[Head(k) EXCEPT !.kids = removeEmTags(@)]>>
          ELSE <<Head(k)>>)
         \o removeEmTags(Tail(k))

\* the colon step of formatKeyTakeawaysHeading, given the child list without
\* em and its trimmed text: the text with ':' is written into the first
\* strong below the heading, or into the heading
EnsureColon(k, text) ==
    LET strongs == SelectSeq(ElementPaths(k), LAMBDA p : NodeAt(k, p).tag = "strong")
    IN  IF EndsWith(text, <<":">>) THEN k
        ELSE IF strongs # <<>> THEN ReplaceKids(k, Head(strongs), <<Txt(text \o <<":">>)>>)
        ELSE <<Txt(text \o <<":">>)>>

\* formatKeyTakeawaysHeading
formatKeyTakeawaysHeading(heading) ==
    [heading EXCEPT !.kids = EnsureColon(removeEmTags(heading.kids),
                                         Trim(textContentOf(removeEmTags(heading.kids))))]

RECURSIVE RemoveEmInItems(_)
\* listItems.forEach(removeEmTags) over querySelectorAll('li') of the list
RemoveEmInItems(k) ==
    [i \in 1..Len(k) |->
        IF IsText(k[i]) THEN k[i]
        ELSE IF k[i].tag = "li" THEN [k[i] EXCEPT !.kids = removeEmTags(@)]
        ELSE [k[i] EXCEPT !.kids = RemoveEmInItems(@)]]

\* the body of `if (keyTakeawaysHeading)` for the heading at path hp: the
\* heading is formatted, then the items of the first ul sibling after it
FormatSection(d, hp, ul) ==
    IF ul = 0 THEN ReplaceNode(d, hp, formatKeyTakeawaysHeading(NodeAt(d, hp)))
    ELSE ReplaceKids(ReplaceNode(d, hp, formatKeyTakeawaysHeading(NodeAt(d, hp))),
                     ParentPath(hp) \o <<ul>>,
                     RemoveEmInItems(KidsAt(d, ParentPath(hp) \o <<ul>>)))

\* ModeKeyTakeaways.format
formatKeyTakeaways(d) ==
    IF KeyTakeawaysPaths(d) = <<>> THEN Normalize(d)
    ELSE Normalize(FormatSection(d, Head(KeyTakeawaysPaths(d)),
                     FirstUlAfter(KidsAt(d, ParentPath(Head(KeyTakeawaysPaths(d)))),
                                  IndexOf(Head(KeyTakeawaysPaths(d))))))

\* the first h1 element after the ul, other elements skipped
FirstH1After(k, j) ==
    IF \E m \in (j + 1)..Len(k) : k[m].tag = "h1"
    THEN CHOOSE m \in (j + 1)..Len(k) :
            k[m].tag = "h1" /\ \A n \in (j + 1)..(m - 1) : k[n].tag # "h1"
    ELSE 0

\* the element after the ul at index j when it is an h1, else 0
H1IndexAfter(k, j) ==
    IF j # 0 /\ NextElementIndex(k, j) # 0 /\ k[NextElementIndex(k, j)].tag = "h1"
    THEN NextElementIndex(k, j) ELSE 0

\* the body of `if (keyTakeawaysHeading)`: elementAfterUl.remove()
RemoveH1InSection(d, pp, i) ==
    IF i = 0 THEN d ELSE ReplaceKids(d, pp, RemoveAt(KidsAt(d, pp), i))

\* ModeH1Removal.remove
removeH1AfterKeyTakeaways(d) ==
    IF KeyTakeawaysPaths(d) = <<>> THEN Normalize(d)
    ELSE Normalize(RemoveH1InSection(d, ParentPath(Head(KeyTakeawaysPaths(d))),
                     H1IndexAfter(KidsAt(d, ParentPath(Head(KeyTakeawaysPaths(d)))),
                                  FirstUlAfter(KidsAt(d, ParentPath(Head(KeyTakeawaysPaths(d)))),
                                               IndexOf(Head(KeyTakeawaysPaths(d)))))))

-----------------------------------------------------------------------------
(* Mode utility: OL header conversion (mode-ol-header-conversion.js) *)

\* :scope > li
ListItems(ol) == SelectSeq(ol.kids, LAMBDA n : n.tag = "li")

\* isHeaderList: there are items, and each has one element child, a strong
\* with one heading child and no text besides white space
isHeaderList(olElement) ==
    /\ ListItems(olElement) # <<>>
    /\ \A i \in 1..Len(ListItems(olElement)) :
          LET elementChildren == ElementChildren(ListItems(olElement)[i].kids)
          IN  /\ Len(elementChildren) = 1
              /\ elementChildren[1].tag = "strong"
              /\ Len(SelectSeq(elementChildren[1].kids, LAMBDA n : n.tag \in HEADING_TAGS)) = 1
              /\ \A j \in 1..Len(elementChildren[1].kids) :
                    IsText(elementChildren[1].kids[j])
                       => Trim(elementChildren[1].kids[j].text) = <<>>

\* the test of isFollowedByHeaderList for a spacing paragraph: a p whose
\* trimmed text is empty (trim takes U+00A0 away as well) or the six
\* characters of the entity
isSkippedSibling(nextSibling) ==
    /\ nextSibling.tag = "p"
    /\ Trim(textContent(nextSibling)) \in {<<>>, <<"&nbsp;">>}

RECURSIVE isFollowedByHeaderList(_, _)
\* isFollowedByHeaderList for the element at index i of the child list k: the
\* next element sibling, paragraphs with empty trimmed text skipped, is an ol
\* that is a header list
isFollowedByHeaderList(k, i) ==
    IF NextElementIndex(k, i) = 0 THEN FALSE
    ELSE IF isSkippedSibling(k[NextElementIndex(k, i)])
         THEN isFollowedByHeaderList(k, NextElementIndex(k, i))
    ELSE k[NextElementIndex(k, i)].tag = "ol" /\ isHeaderList(k[NextElementIndex(k, i)])

\* olsToProcess: the first pass over querySelectorAll('ol')
OlsToProcess(d) ==
    SelectSeq(ElementPaths(d),
              LAMBDA p : /\ NodeAt(d, p).tag = "ol"
                         /\ isHeaderList(NodeAt(d, p))
                         /\ ~isFollowedByHeaderList(KidsAt(d, ParentPath(p)), IndexOf(p)))

\* a scan that finds no h2: every list takes the shared counter
ParentH2None(bodyChildren, i) == 0

RECURSIVE ParentH2(_, _)
\* the loop from olIndex - 1 down: the index of the nearest h2 before an h1
\* is met, 0 for none
ParentH2(bodyChildren, i) ==
    IF i < 1 THEN 0
    ELSE IF bodyChildren[i].tag = "h2" THEN i
    ELSE IF bodyChildren[i].tag = "h1" THEN 0
    ELSE ParentH2(bodyChildren, i - 1)

\* sectionKey: the index of the parent h2 in bodyChildren, 0 for null;
\* bodyChildren.indexOf(ol) finds no ol that is not a child of the body
SectionKey(d, p) ==
    ParentH2(ElementChildren(d),
             (IF Len(p) = 1 THEN Len(ElementChildren(SubSeq(d, 1, p[1]))) ELSE 0) - 1)

RECURSIVE AssignCounters(_, _, _)
\* the value of `counter` for each ol of olsToProcess, in processing order.
\* counter is read once before the items are walked; every item stores
\* counter + 1.  An entry of 0 stands for no entry.
AssignCounters(d, ols, sectionCounters) ==
    IF ols = <<>> THEN <<>>
    ELSE LET key == SectionKey(d, Head(ols))
             counter == IF sectionCounters[key] = 0 THEN 1 ELSE sectionCounters[key]
         IN  <<counter>>
             \o AssignCounters(d, Tail(ols),
                    [sectionCounters EXCEPT ![key] =
                        IF ListItems(NodeAt(d, Head(ols))) # <<>> THEN counter + 1 ELSE counter])

\* li.querySelector(':scope > strong') then strongTag.querySelector('h1, ..., h6')
HeadingOfItem(li) ==
    LET strongKids == ElementChildren(li.kids)[1].kids
    IN  NodeAt(strongKids,
               Head(SelectSeq(ElementPaths(strongKids),
                              LAMBDA q : NodeAt(strongKids, q).tag \in HEADING_TAGS)))

\* the clone of the heading with `${counter}. ` put before the trimmed text
\* of its first strong child, or of the heading when it has none
NumberedHeading(heading, counter) ==
    LET k == heading.kids
        strongs == {i \in 1..Len(k) : k[i].tag = "strong"}
        i == CHOOSE x \in strongs : \A y \in strongs : x <= y
    IN  [heading EXCEPT !.kids =
            IF strongs # {}
            THEN [k EXCEPT ![i].kids =
                    <<Txt(<<ToString(counter), ".", "sp">> \o Trim(textContent(k[i])))>>]
            ELSE <<Txt(<<ToString(counter), ".", "sp">> \o Trim(textContentOf(k)))>>]

RECURSIVE ReplaceOls(_, _, _)
\* the second pass: the new headings of each ol take its place.  The
\* replacements are applied from the last ol to the first, which leaves the
\* paths of the earlier ones valid.
ReplaceOls(d, ols, counters) ==
    IF ols = <<>> THEN d
    ELSE LET p == ols[Len(ols)]
             k == KidsAt(d, ParentPath(p))
             items == ListItems(NodeAt(d, p))
         IN  ReplaceOls(
                ReplaceKids(d, ParentPath(p),
                    SubSeq(k, 1, IndexOf(p) - 1)
                    \o [j \in 1..Len(items) |->
                           NumberedHeading(HeadingOfItem(items[j]), counters[Len(ols)])]
                    \o SubSeq(k, IndexOf(p) + 1, Len(k))),
                SubSeq(ols, 1, Len(ols) - 1), counters)

\* ModeOlHeaderConversion.convert
convertOlHeaders(d) ==
    Normalize(ReplaceOls(d, OlsToProcess(d),
                         AssignCounters(d, OlsToProcess(d), [key \in 0..Len(d) |-> 0])))

-----------------------------------------------------------------------------
(* Mode utility: spacing rules (mode-spacing.js) *)

\* isSpacingElement: a p whose trimmed innerHTML is '&nbsp;' (its children
\* are text, one non-breaking space between white space) and whose trimmed
\* text is a non-breaking space or empty
isSpacingElement(element) ==
    /\ element.tag = "p"
    /\ \A i \in 1..Len(element.kids) : IsText(element.kids[i])
    /\ \E i \in 1..Len(textContent(element)) :
          /\ textContent(element)[i] = "nbsp"
          /\ \A j \in 1..Len(textContent(element)) : j # i => IsHtmlWs(textContent(element)[j])
    /\ Trim(textContent(element)) \in {<<"nbsp">>, <<>>}

\* doc.createElement('p') with innerHTML '&nbsp;'
Spacing == El("p", <<Txt(<<"nbsp">>)>>)

RECURSIVE PrevSolidIndex(_, _)
\* the walk over previousSibling that skips white-space text nodes
PrevSolidIndex(k, i) ==
    IF i < 1 THEN 0
    ELSE IF IsText(k[i]) /\ Trim(k[i].text) = <<>> THEN PrevSolidIndex(k, i - 1)
    ELSE i

\* the existing-spacing test is switched off
NeverPreceded(k, i) == FALSE

\* both existing-spacing checks of an insertion before the node at index i:
\* previousElementSibling is a spacing element, or the nearest previous
\* sibling that is not white-space text is one
PrecededBySpacing(k, i) ==
    \/ PrevElementIndex(k, i) # 0 /\ isSpacingElement(k[PrevElementIndex(k, i)])
    \/ PrevSolidIndex(k, i - 1) # 0 /\ isSpacingElement(k[PrevSolidIndex(k, i - 1)])

RECURSIVE InsertSpacingBefore(_, _)
\* insertBefore(spacing, node) for every path, from the last to the first
InsertSpacingBefore(d, ps) ==
    IF ps = <<>> THEN d
    ELSE InsertSpacingBefore(
            ReplaceKids(d, ParentPath(ps[Len(ps)]),
                        InsertAt(KidsAt(d, ParentPath(ps[Len(ps)])), IndexOf(ps[Len(ps)]), Spacing)),
            SubSeq(ps, 1, Len(ps) - 1))

\* paragraphs.forEach: the paragraphs whose trimmed, lower-cased text starts
\* with (atStart) or includes one of the phrases and that have no spacing
\* before them
ParagraphTargets(d, phrases, atStart) ==
    SelectSeq(ElementPaths(d),
              LAMBDA p : /\ NodeAt(d, p).tag = "p"
                         /\ \E phrase \in phrases :
                               IF atStart
                               THEN StartsWith(Lower(Trim(textContent(NodeAt(d, p)))), phrase)
                               ELSE Includes(Lower(Trim(textContent(NodeAt(d, p)))), phrase)
                         /\ ~PrecededBySpacing(KidsAt(d, ParentPath(p)), IndexOf(p)))

addSpacingBeforeAltImageText(d) ==
    InsertSpacingBefore(d, ParagraphTargets(d, {<<"alt image text", ":">>}, FALSE))

addSpacingBeforeDisclaimer(d) ==
    InsertSpacingBefore(d, ParagraphTargets(d, {<<"disclaimer", ":">>}, TRUE))

\* the previous element sibling must be a p whose trimmed innerHTML is not
\* '&nbsp;'
addSpacingBeforeSources(d) ==
    InsertSpacingBefore(d,
        SelectSeq(ElementPaths(d),
            LAMBDA p :
                LET k == KidsAt(d, ParentPath(p))
                    before == PrevElementIndex(k, IndexOf(p))
                IN  /\ NodeAt(d, p).tag = "p"
                    /\ StartsWith(Lower(Trim(textContent(NodeAt(d, p)))), <<"sources", ":">>)
                    /\ before # 0
                    /\ k[before].tag = "p"
                    /\ ~(/\ \A j \in 1..Len(k[before].kids) : IsText(k[before].kids[j])
                         /\ \E i \in 1..Len(textContent(k[before])) :
                               /\ textContent(k[before])[i] = "nbsp"
                               /\ \A j \in 1..Len(textContent(k[before])) :
                                     j # i => IsHtmlWs(textContent(k[before])[j]))))

addSpacingBeforeReadSection(d) ==
    InsertSpacingBefore(d, ParagraphTargets(d, {<<"read also", ":">>, <<"read more", ":">>,
                                                <<"see more", ":">>}, FALSE))

RECURSIVE HeadingTargets(_, _, _, _)
\* the forEach of addSpacingBeforeHeadings over the headings hs, with the
\* flags foundFaqSection and isFirstFaqQuestion: the headings that get a
\* spacing element
HeadingTargets(d, hs, foundFaqSection, isFirstFaqQuestion) ==
    IF hs = <<>> THEN <<>>
    ELSE LET text == Lower(Trim(textContent(NodeAt(d, Head(hs)))))
             faq == Includes(text, <<"frequently asked questions">>) \/ Includes(text, <<"faq">>)
         IN  IF Includes(text, <<"key takeaways">>)
             THEN HeadingTargets(d, Tail(hs), foundFaqSection, isFirstFaqQuestion)
             ELSE IF /\ foundFaqSection \/ faq
                     /\ isFirstFaqQuestion \/ faq
                     /\ NodeAt(d, Head(hs)).tag = "h3"
                  THEN HeadingTargets(d, Tail(hs), TRUE, FALSE)
             ELSE (IF PrecededBySpacing(KidsAt(d, ParentPath(Head(hs))), IndexOf(Head(hs)))
                   THEN <<>> ELSE <<Head(hs)>>)
                  \o HeadingTargets(d, Tail(hs), foundFaqSection \/ faq, isFirstFaqQuestion \/ faq)

addSpacingBeforeHeadings(d) ==
    InsertSpacingBefore(d,
        HeadingTargets(d, SelectSeq(ElementPaths(d), LAMBDA p : NodeAt(d, p).tag \in HEADING_TAGS),
                       FALSE, FALSE))

\* the spacing element goes before the element after the first ul sibling
\* that follows the key-takeaways heading (a null reference node appends)
\* unless that element is a spacing element
addSpacingAfterKeyTakeaways(d) ==
    IF KeyTakeawaysPaths(d) = <<>> THEN d
    ELSE LET pp == ParentPath(Head(KeyTakeawaysPaths(d)))
             k == KidsAt(d, pp)
             ul == FirstUlAfter(k, IndexOf(Head(KeyTakeawaysPaths(d))))
             elementAfterUl == NextElementIndex(k, ul)
         IN  IF ul = 0 THEN d
             ELSE IF elementAfterUl = 0 THEN ReplaceKids(d, pp, Append(k, Spacing))
             ELSE IF isSpacingElement(k[elementAfterUl]) THEN d
             ELSE ReplaceKids(d, pp, InsertAt(k, elementAfterUl, Spacing))

\* ModeSpacing.add
addSpacing(d) ==
    Normalize(addSpacingAfterKeyTakeaways(addSpacingBeforeHeadings(addSpacingBeforeReadSection(
        addSpacingBeforeSources(addSpacingBeforeDisclaimer(addSpacingBeforeAltImageText(d)))))))

-----------------------------------------------------------------------------
(* HTML Cleaner: src/js/utils/html-cleaner.js.  A child list of <<Null>>
   stands for an exception thrown on the way. *)

BLOCK_ELEMENTS == {"div", "p", "h1", "h2", "h3", "h4", "h5", "h6", "ul", "ol", "li",
                   "blockquote", "pre", "table", "thead", "tbody", "tr", "th", "td",
                   "dl", "dt", "dd", "section", "article", "aside", "header", "footer",
                   "nav", "main", "figure", "figcaption"}

\* unwrapParagraph: the children of the p that are moved before it; br
\* elements and white-space text are left behind and go with the p
unwrapParagraph(pElement) ==
    SelectSeq(pElement.kids,
              LAMBDA child : IF IsText(child) THEN Trim(child.text) # <<>> ELSE child.tag # "br")

RECURSIVE normalizeStrongEmNesting(_)
\* normalizeStrongEmNesting on the child list of the element.  A strong with
\* an em child is replaced by em > strong around the children of the first
\* such em; the children of the strong after that em follow, each inserted
\* before the one inserted before it, and what preceded the em goes with the
\* strong.  Every other element child is normalized in turn.
normalizeStrongEmNesting(k) ==
    IF k = <<>> THEN <<>>
    ELSE LET child == Head(k)
             ems == {j \in 1..Len(child.kids) : child.kids[j].tag = "em"}
             directEm == CHOOSE j \in ems : \A m \in ems : j <= m
         IN  (IF child.tag = "strong" /\ ems # {}
              THEN <<El("em", <<El("strong", child.kids[directEm].kids)>>)>>
                   \o [j \in 1..(Len(child.kids) - directEm) |-> child.kids[Len(child.kids) + 1 - j]]
              ELSE IF IsElement(child)
                   THEN <<[child EXCEPT !.kids = normalizeStrongEmNesting(@)]>>
              ELSE <<child>>)
             \o normalizeStrongEmNesting(Tail(k))

RECURSIVE mergeAdjacentEmTags(_)
\* mergeAdjacentEmTags on the child list of the element: the first em that
\* is directly followed by an em takes its children, and the pass restarts
mergeAdjacentEmTags(k) ==
    IF \E i \in 1..(Len(k) - 1) : k[i].tag = "em" /\ k[i + 1].tag = "em"
    THEN LET i == CHOOSE x \in 1..(Len(k) - 1) :
                     /\ k[x].tag = "em" /\ k[x + 1].tag = "em"
                     /\ \A y \in 1..(x - 1) : ~(k[y].tag = "em" /\ k[y + 1].tag = "em")
         IN  mergeAdjacentEmTags(SubSeq(k, 1, i - 1)
                                 \o <<[k[i] EXCEPT !.kids = @ \o k[i + 1].kids]>>
                                 \o SubSeq(k, i + 2, Len(k)))
    ELSE k

RECURSIVE cleanElement(_, _), CleanChildren(_, _, _, _)
\* cleanElement: the element after its children were processed, Null when an
\* exception was thrown.  The removal of the br siblings that follow a block
\* element is part of the loop of its parent, CleanChildren.
cleanElement(element, insideLi) ==
    IF CleanChildren(element.kids, 1, element.tag \in BLOCK_ELEMENTS,
                     element.tag = "li" \/ insideLi) = <<Null>>
    THEN Null
    ELSE [element EXCEPT !.kids =
            IF element.tag = "li" \/ insideLi
            THEN mergeAdjacentEmTags(normalizeStrongEmNesting(
                    CleanChildren(@, 1, element.tag \in BLOCK_ELEMENTS, TRUE)))
            ELSE CleanChildren(@, 1, element.tag \in BLOCK_ELEMENTS, FALSE)]
\* the while loop of cleanElement with `node` at index i of the child list k
\* of an element.  nextSibling is read before the node is processed: when
\* the node that was read has been removed meanwhile (a br after a text node
\* in a block element, a br after a block child), the loop visits the
\* removed node; removeChild then throws inside a block element or a list
\* item, and anywhere else the loop ends there, the removed node having no
\* next sibling.
CleanChildren(k, i, isBlock, nowInsideLi) ==
    IF i > Len(k) THEN k
    ELSE IF IsText(k[i])
         THEN IF isBlock /\ i < Len(k) /\ k[i + 1].tag = "br" THEN <<Null>>
              ELSE CleanChildren(k, i + 1, isBlock, nowInsideLi)
    ELSE IF k[i].tag = "br" /\ (nowInsideLi \/ isBlock)
         THEN CleanChildren(RemoveAt(k, i), i, isBlock, nowInsideLi)
    ELSE IF k[i].tag = "p" /\ nowInsideLi
         THEN CleanChildren(SubSeq(k, 1, i - 1) \o unwrapParagraph(k[i]) \o SubSeq(k, i + 1, Len(k)),
                            i + Len(unwrapParagraph(k[i])), isBlock, nowInsideLi)
    ELSE IF cleanElement(k[i], nowInsideLi) = Null THEN <<Null>>
    ELSE IF k[i].tag \notin BLOCK_ELEMENTS
         THEN CleanChildren([k EXCEPT ![i] = cleanElement(k[i], nowInsideLi)],
                            i + 1, isBlock, nowInsideLi)
    ELSE IF i < Len(k) /\ k[i + 1].tag = "br"
         THEN IF nowInsideLi \/ isBlock THEN <<Null>>
              ELSE SubSeq(k, 1, i - 1) \o <<cleanElement(k[i], nowInsideLi)>>
                   \o SelectSeq(SubSeq(k, i + 1, Len(k)), LAMBDA n : n.tag # "br")
    ELSE CleanChildren(SubSeq(k, 1, i - 1) \o <<cleanElement(k[i], nowInsideLi)>>
                       \o SelectSeq(SubSeq(k, i + 1, Len(k)), LAMBDA n : n.tag # "br"),
                       i + 1, isBlock, nowInsideLi)

RECURSIVE removeBrAfterBlockElements(_)
\* removeBrAfterBlockElements on a child list, the children first: the br
\* elements that follow a block element directly or after other br elements
\* are removed
removeBrAfterBlockElements(k) ==
    SelectSeq([i \in 1..Len(k) |->
                  IF k[i].tag = "br" /\ \E j \in 1..(i - 1) :
                                           /\ k[j].tag \in BLOCK_ELEMENTS
                                           /\ \A m \in (j + 1)..(i - 1) : k[m].tag = "br"
                  THEN Null
                  ELSE IF IsElement(k[i])
                       THEN [k[i] EXCEPT !.kids = removeBrAfterBlockElements(@)]
                  ELSE k[i]],
              LAMBDA n : n # Null)

RECURSIVE trimAnchorWhitespace(_)
\* trimAnchorWhitespace on a child list, the children first: the first text
\* child of an anchor loses its leading white space and the last one its
\* trailing white space; a text node that ends up empty is removed
trimAnchorWhitespace(k) ==
    [i \in 1..Len(k) |->
        IF ~IsElement(k[i]) THEN k[i]
        ELSE LET c == trimAnchorWhitespace(k[i].kids)
                 texts == {j \in 1..Len(c) : IsText(c[j])}
                 firstTextNode == CHOOSE j \in texts : \A m \in texts : j <= m
                 lastTextNode == CHOOSE j \in texts : \A m \in texts : m <= j
             IN  [k[i] EXCEPT !.kids =
                    IF k[i].tag # "a" \/ texts = {} THEN c
                    ELSE SelectSeq([c EXCEPT ![firstTextNode].text = TrimStart(@),
                                             ![lastTextNode].text = TrimEnd(@)],
                                   LAMBDA n : ~(IsText(n) /\ n.text = <<>>))]]

\* trimAnchorWhitespace removes the only text node of an anchor when it is
\* white space, and then removes it a second time: removeChild throws
TrimAnchorThrows(k) ==
    \E a \in AllElements(k) :
        /\ a.tag = "a"
        /\ Len(SelectSeq(a.kids, IsText)) = 1
        /\ Trim(SelectSeq(a.kids, IsText)[1].text) = <<>>

\* HTMLCleaner.clean: the cleaned document, or the html it was given when
\* an exception was thrown
cleanHtml(html) ==
    IF CleanChildren(html, 1, FALSE, FALSE) = <<Null>> THEN html
    ELSE IF TrimAnchorThrows(removeBrAfterBlockElements(CleanChildren(html, 1, FALSE, FALSE)))
         THEN html
    ELSE Normalize(trimAnchorWhitespace(removeBrAfterBlockElements(
            CleanChildren(html, 1, FALSE, FALSE))))

-----------------------------------------------------------------------------
(* Mode utility: list normalization (mode-list-normalize.js).  A child list
   of <<Null>> stands for an exception thrown on the way.  Input domain: no
   li inside a strong whose text ends with a colon. *)

\* one iteration of strongTags.forEach, for the strong at path sp below the
\* child list lk of the li.  Assigning innerHTML to a strong replaces its
\* descendants by copies, so the strong elements of the snapshot below it
\* are detached: what is done to them and to their siblings is not seen,
\* a child of the strong has lost its siblings, a next sibling that is an
\* element is not a child of the li, and only the space appended to the li
\* is seen.
NormalizeStrong(lk, sp) ==
    LET strong == NodeAt(lk, sp)
        k == KidsAt(lk, ParentPath(sp))
        i == IndexOf(sp)
        Assigned(m) == /\ NodeAt(lk, SubSeq(sp, 1, m)).tag = "strong"
                       /\ EndsWith(Trim(textContent(NodeAt(lk, SubSeq(sp, 1, m)))), <<":">>)
        detached == \E m \in 1..(Len(sp) - 1) : Assigned(m)
        hasNext == i < Len(k) /\ ~(Len(sp) > 1 /\ Assigned(Len(sp) - 1))
        n == Len(strong.kids)
        text == strong.kids[n].text
        \* strongHTML.replace(/:\s+$/, ':') and the parse of the assigned innerHTML
        inner == IF /\ IsText(strong.kids[n]) /\ IsHtmlWs(text[Len(text)])
                    /\ \E c \in 1..(Len(text) - 1) :
                          text[c] = ":" /\ \A j \in (c + 1)..Len(text) : IsHtmlWs(text[j])
                 THEN Normalize([strong.kids EXCEPT ![n].text =
                         SubSeq(text, 1, CHOOSE c \in 1..(Len(text) - 1) :
                                           text[c] = ":" /\ \A j \in (c + 1)..Len(text) :
                                                               IsHtmlWs(text[j]))])
                 ELSE Normalize(strong.kids)
        lk1 == IF detached THEN lk ELSE ReplaceNode(lk, sp, [strong EXCEPT !.kids = inner])
    IN  IF ~EndsWith(Trim(textContent(strong)), <<":">>) THEN lk
        ELSE IF hasNext /\ IsText(k[i + 1])
             THEN IF detached THEN lk
                  ELSE ReplaceNode(lk1, ParentPath(sp) \o <<i + 1>>,
                                   Txt(<<"sp">> \o Trim(k[i + 1].text)))
        ELSE IF hasNext
             THEN IF detached \/ Len(sp) > 1 THEN <<Null>>
                  ELSE InsertAt(lk1, i + 1, Txt(<<"sp">>))
        ELSE Append(lk1, Txt(<<"sp">>))

RECURSIVE NormalizeItem(_, _)
\* strongTags.forEach from the j-th strong below the li on
NormalizeItem(lk, j) ==
    IF lk = <<Null>> \/ j > Len(SelectSeq(ElementPaths(lk), LAMBDA p : NodeAt(lk, p).tag = "strong"))
    THEN lk
    ELSE NormalizeItem(
            NormalizeStrong(lk, SelectSeq(ElementPaths(lk),
                                          LAMBDA p : NodeAt(lk, p).tag = "strong")[j]),
            j + 1)

RECURSIVE NormalizeItems(_, _)
\* listItems.forEach from the n-th li of the document on
NormalizeItems(d, n) ==
    IF d = <<Null>> \/ n > Len(SelectSeq(ElementPaths(d), LAMBDA p : NodeAt(d, p).tag = "li"))
    THEN d
    ELSE LET li == SelectSeq(ElementPaths(d), LAMBDA p : NodeAt(d, p).tag = "li")[n]
         IN  IF NormalizeItem(KidsAt(d, li), 1) = <<Null>> THEN <<Null>>
             ELSE NormalizeItems(ReplaceKids(d, li, NormalizeItem(KidsAt(d, li), 1)), n + 1)

\* ModeListNormalize.normalize: the html it was given when an exception was
\* thrown
normalizeLists(html) ==
    IF NormalizeItems(html, 1) = <<Null>> THEN html ELSE Normalize(NormalizeItems(html, 1))

-----------------------------------------------------------------------------
(* Mode utility: heading strong tags (ModeHeadingStrong) *)

RECURSIVE WrapHeadings(_)
\* headings.forEach on a child list: a heading with children that is not
\* already one strong element gets clones of its children inside one
\* strong; headings inside the clones are not part of the document
WrapHeadings(k) ==
    [i \in 1..Len(k) |->
        IF ~IsElement(k[i]) THEN k[i]
        ELSE IF /\ k[i].tag \in HEADING_TAGS
                /\ k[i].kids # <<>>
                /\ ~(/\ Len(ElementChildren(k[i].kids)) = 1
                     /\ ElementChildren(k[i].kids)[1].tag = "strong")
             THEN [k[i] EXCEPT !.kids = <<El("strong", @)>>]
        ELSE [k[i] EXCEPT !.kids = WrapHeadings(@)]]

\* ModeHeadingStrong.wrap
wrapHeadingsInStrong(html) == Normalize(WrapHeadings(html))

-----------------------------------------------------------------------------
(* Mode utility: sources normalization (ModeSourcesNormalize) *)

\* a normalization that leaves the items of the list as they are
normalizeSourcesListItemsNone(k) == k

RECURSIVE normalizeSourcesListItems(_)
\* normalizeSourcesListItems on a child list below the ol: the content of
\* every li goes into one em unless the li has one element child, an em, and
\* no text besides white space
normalizeSourcesListItems(k) ==
    [i \in 1..Len(k) |->
        IF ~IsElement(k[i]) THEN k[i]
        ELSE IF /\ k[i].tag = "li"
                /\ ~(/\ Len(ElementChildren(k[i].kids)) = 1
                     /\ ElementChildren(k[i].kids)[1].tag = "em"
                     /\ \A j \in 1..Len(k[i].kids) :
                           IsText(k[i].kids[j]) => Trim(k[i].kids[j].text) = <<>>)
             THEN [k[i] EXCEPT !.kids = <<El("em", normalizeSourcesListItems(@))>>]
        ELSE [k[i] EXCEPT !.kids = normalizeSourcesListItems(@)]]

RECURSIVE NormalizeSourcesFrom(_, _)
\* paragraphs.forEach from the n-th p of the document on: a paragraph whose
\* trimmed, lower-cased text is 'sources' or 'sources:' becomes
\* strong > em > 'Sources:', and the items of the first ol sibling after it
\* are normalized
NormalizeSourcesFrom(d, n) ==
    IF n > Len(SelectSeq(ElementPaths(d), LAMBDA p : NodeAt(d, p).tag = "p")) THEN d
    ELSE LET p == SelectSeq(ElementPaths(d), LAMBDA q : NodeAt(d, q).tag = "p")[n]
             k == KidsAt(d, ParentPath(p))
             ols == {j \in (IndexOf(p) + 1)..Len(k) : k[j].tag = "ol"}
             paragraph == [k[IndexOf(p)] EXCEPT !.kids =
                              <<El("strong", <<El("em", <<Txt(<<"Sources", ":">>)>>)>>)>>]
         IN  IF Lower(Trim(textContent(NodeAt(d, p)))) \notin {<<"sources">>, <<"sources", ":">>}
             THEN NormalizeSourcesFrom(d, n + 1)
             ELSE NormalizeSourcesFrom(
                     ReplaceKids(d, ParentPath(p),
                        IF ols = {} THEN [k EXCEPT ![IndexOf(p)] = paragraph]
                        ELSE [k EXCEPT ![IndexOf(p)] = paragraph,
                                       ![CHOOSE j \in ols : \A m \in ols : j <= m].kids =
                                           normalizeSourcesListItems(@)]),
                     n + 1)

\* ModeSourcesNormalize.normalize
normalizeSources(html) == Normalize(NormalizeSourcesFrom(html, 1))

-----------------------------------------------------------------------------
(* Mode utility: relative paths (ModeRelativePaths) *)

RECURSIVE convertToRelativePaths(_)
\* an href that includes '://' and does not start with '/', './' or '../'
\* becomes pathname + search + hash of new URL(href)
convertToRelativePaths(k) ==
    [i \in 1..Len(k) |->
        IF ~IsElement(k[i]) THEN k[i]
        ELSE [k[i] EXCEPT
                 !.kids = convertToRelativePaths(@),
                 !.attrs = IF /\ k[i].tag = "a"
                              /\ "href" \in DOMAIN @
                              /\ Len(@["href"]) >= 2
                              /\ @["href"][1] \in {"http:", "https:"}
                              /\ @["href"][2] \in {"//host", "//page"}
                           THEN [@ EXCEPT !["href"] =
                                    IF Len(@) = 2 THEN <<"/">> ELSE SubSeq(@, 3, Len(@))]
                           ELSE @]]

-----------------------------------------------------------------------------
(* Mode Processor: src/js/utils/mode-processor.js *)

\* one mode utility applied to the html
Utility(name, html) ==
    CASE name = "headingStrong" -> wrapHeadingsInStrong(html)
      [] name = "keyTakeaways" -> formatKeyTakeaways(html)
      [] name = "h1Removal" -> removeH1AfterKeyTakeaways(html)
      [] name = "linkAttributes" -> addLinkAttributes(html)
      [] name = "olHeaderConversion" -> convertOlHeaders(html)
      [] name = "spacing" -> addSpacing(html)
      [] name = "relativePaths" -> Normalize(convertToRelativePaths(html))
      [] name = "sourcesNormalize" -> normalizeSources(html)

RECURSIVE ApplyUtilities(_, _)
ApplyUtilities(html, names) ==
    IF names = <<>> THEN html ELSE ApplyUtilities(Utility(Head(names), html), Tail(names))

\* processMode: list normalization in every mode, then the utilities of the
\* mode in their order.  relativePaths runs when its flag is true, every
\* other utility unless its flag is false.
\* a processor that applies the transforms of blogs mode in every mode
processModeOfBlogs(html, mode, features) ==
    ApplyUtilities(normalizeLists(html),
        SelectSeq(<<"headingStrong", "keyTakeaways", "h1Removal", "linkAttributes",
                    "olHeaderConversion", "spacing", "relativePaths", "sourcesNormalize">>,
                  LAMBDA name : IF name = "relativePaths"
                                THEN name \in DOMAIN features /\ features[name] = TRUE
                                ELSE name \notin DOMAIN features \/ features[name] # FALSE))

\* The features argument is a map from flag names to booleans, or Null when
\* the caller passes none: reading features.headingStrong then throws a
\* TypeError out of processMode, which is the result <<Null>>.
processMode(html, mode, features) ==
    IF html = <<>> THEN <<>>
    ELSE IF mode \in {"blogs", "shoppables"} /\ features = Null THEN <<Null>>
    ELSE ApplyUtilities(normalizeLists(html),
        SelectSeq(CASE mode = "blogs" ->
                         <<"headingStrong", "keyTakeaways", "h1Removal", "linkAttributes",
                           "olHeaderConversion", "spacing", "relativePaths", "sourcesNormalize">>
                    [] mode = "shoppables" ->
                         <<"headingStrong", "linkAttributes", "relativePaths",
                           "olHeaderConversion", "sourcesNormalize">>
                    [] OTHER -> <<>>,
                  LAMBDA name : IF name = "relativePaths"
                                THEN name \in DOMAIN features /\ features[name] = TRUE
                                ELSE name \notin DOMAIN features \/ features[name] # FALSE))

-----------------------------------------------------------------------------
(* HTML Formatter: src/js/utils/html-formatter.js.  The formatted text is a
   sequence of tokens: one text node per character of text, an element
   without children for an opening tag, and CloseTag for a closing tag.
   The order of the attributes inside a tag is not modelled.  The
   formatter's list of block elements is that of the cleaner. *)

INLINE_ELEMENTS == {"a", "em", "i", "strong", "b", "span", "code", "sup", "sub",
                    "small", "mark", "del", "ins", "u", "abbr", "cite", "q", "samp", "var"}

SELF_CLOSING == {"br", "hr", "img", "input", "meta", "link", "area", "base", "col",
                 "embed", "source", "track", "wbr"}

OpenTag(element) == Elem(element.tag, element.attrs, <<>>)

CloseTag(tagName) == [tag |-> tagName, attrs |-> NoAttrs, kids |-> <<>>, text |-> <<"/">>]

\* text written into the output as it is
Chars(s) == [i \in 1..Len(s) |-> Txt(<<s[i]>>)]

\* '\n' + '  '.repeat(indentLevel)
NewLine(indentLevel) == Chars(<<"nl">> \o [i \in 1..(2 * indentLevel) |-> "sp"])

\* the characters of a piece of formatted text, "<" standing for a tag
CharsOf(s) == [i \in 1..Len(s) |-> IF IsText(s[i]) THEN s[i].text[1] ELSE "<"]

\* isSpacingParagraph: innerHTML, where U+00A0 is written "&nbsp;", trims to
\* that entity, or the text is white space with a U+00A0 in it
isSpacingParagraph(node) ==
    /\ node.tag = "p"
    /\ \/ /\ ElementChildren(node.kids) = <<>>
          /\ SelectSeq(textContent(node), LAMBDA l : ~IsHtmlWs(l)) = <<"nbsp">>
       \/ /\ Trim(textContent(node)) = <<>>
          /\ "nbsp" \in Range(textContent(node))
       \/ textContent(node) = <<"nbsp">>

\* the children formatElement passes over: inline and block elements
\* without text and without element children, spacing paragraphs excepted
IsSkipped(node) ==
    /\ \/ node.tag \in INLINE_ELEMENTS
       \/ node.tag \in BLOCK_ELEMENTS /\ ~isSpacingParagraph(node)
    /\ Trim(textContent(node)) = <<>>
    /\ ElementChildren(node.kids) = <<>>

RECURSIVE formatElement(_, _, _), FormatChildren(_, _, _, _)
\* the loop over element.childNodes from index i on: the content
FormatChildren(k, i, childInsideLi, indentLevel) ==
    IF i > Len(k) THEN <<>>
    ELSE (IF IsText(k[i])
          THEN IF \/ Trim(k[i].text) # <<>>
                  \/ /\ k[i].text # <<>>
                     /\ \/ i > 1 /\ IsElement(k[i - 1])
                        \/ i < Len(k) /\ IsElement(k[i + 1])
               THEN Chars(k[i].text)
               ELSE <<>>
          ELSE IF IsSkipped(k[i]) THEN <<>>
          ELSE formatElement(k[i], childInsideLi,
                             IF k[i].tag \in BLOCK_ELEMENTS THEN indentLevel + 1 ELSE indentLevel))
         \o FormatChildren(k, i + 1, childInsideLi, indentLevel)

\* the tags put around the content of an element that has content
FormatTags(element, insideLi, indentLevel, content, blockChildTags) ==
    IF element.tag \notin BLOCK_ELEMENTS \/ (element.tag = "p" /\ insideLi)
    THEN <<OpenTag(element)>> \o content \o <<CloseTag(element.tag)>>
    ELSE IF \/ /\ element.tag = "li"
               /\ blockChildTags # <<>>
               /\ \A j \in 1..Len(blockChildTags) : blockChildTags[j] = "p"
            \/ blockChildTags = <<>> /\ Trim(CharsOf(content)) # <<>>
         THEN NewLine(indentLevel) \o <<OpenTag(element)>> \o content
              \o <<CloseTag(element.tag)>>
    ELSE NewLine(indentLevel) \o <<OpenTag(element)>> \o content
         \o NewLine(indentLevel) \o <<CloseTag(element.tag)>>

formatElement(element, insideLi, indentLevel) ==
    IF isSpacingParagraph(element)
    THEN NewLine(indentLevel) \o <<OpenTag(El("p", <<>>)), Txt(<<"&nbsp;">>), CloseTag("p")>>
    ELSE IF element.tag \in SELF_CLOSING THEN <<OpenTag(element)>>
    ELSE IF FormatChildren(element.kids, 1, element.tag = "li" \/ insideLi, indentLevel) = <<>>
         THEN <<>>
    ELSE FormatTags(element, insideLi, indentLevel,
                    FormatChildren(element.kids, 1, element.tag = "li" \/ insideLi, indentLevel),
                    [j \in 1..Len(SelectSeq(element.kids,
                                            LAMBDA n : n.tag \in BLOCK_ELEMENTS /\ ~IsSkipped(n))) |->
                        SelectSeq(element.kids,
                                  LAMBDA n : n.tag \in BLOCK_ELEMENTS /\ ~IsSkipped(n))[j].tag])

RECURSIVE JoinLines(_)
\* Array.prototype.join('\n')
JoinLines(lines) ==
    IF lines = <<>> THEN <<>>
    ELSE IF Len(lines) = 1 THEN lines[1]
    ELSE lines[1] \o Chars(<<"nl">>) \o JoinLines(Tail(lines))

RECURSIVE ReplaceEmpty(_, _)
\* the four replacements formatCompact makes in the joined text:
\*   1  <br></br> and the like lose the closing tag
\*   2  an inline element other than an anchor, without attributes and
\*      without content, is removed
\*   3  <p></p> is removed
\*   4  a <p> around white space and "&nbsp;" only becomes <p>&nbsp;</p> when
\*      it has a "&nbsp;" or U+00A0 and is removed otherwise
ReplaceEmpty(s, pass) ==
    IF s = <<>> THEN <<>>
    ELSE IF /\ pass \in 1..3
            /\ Len(s) >= 2
            /\ IsElement(s[1]) /\ s[1].text = <<>> /\ DOMAIN s[1].attrs = {}
            /\ s[1].tag \in (CASE pass = 1 -> SELF_CLOSING
                               [] pass = 2 -> INLINE_ELEMENTS \ {"a"}
                               [] pass = 3 -> {"p"})
            /\ IsElement(s[2]) /\ s[2].text = <<"/">> /\ s[2].tag = s[1].tag
         THEN (IF pass = 1 THEN <<s[1]>> ELSE <<>>) \o ReplaceEmpty(SubSeq(s, 3, Len(s)), pass)
    ELSE IF /\ pass = 4
            /\ s[1].tag = "p" /\ s[1].text = <<>> /\ DOMAIN s[1].attrs = {}
            /\ \E j \in 2..Len(s) :
                  /\ s[j].tag = "p" /\ s[j].text = <<"/">>
                  /\ \A m \in 2..(j - 1) : CharsOf(s)[m] \in {"sp", "nl", "nbsp", "&nbsp;"}
         THEN LET j == CHOOSE x \in 2..Len(s) :
                          /\ s[x].tag = "p" /\ s[x].text = <<"/">>
                          /\ \A m \in 2..(x - 1) : CharsOf(s)[m] \in {"sp", "nl", "nbsp", "&nbsp;"}
              IN  (IF \E m \in 2..(j - 1) : CharsOf(s)[m] \in {"nbsp", "&nbsp;"}
                   THEN <<OpenTag(El("p", <<>>)), Txt(<<"&nbsp;">>), CloseTag("p")>>
                   ELSE <<>>)
                  \o ReplaceEmpty(SubSeq(s, j + 1, Len(s)), pass)
    ELSE <<s[1]>> \o ReplaceEmpty(Tail(s), pass)

RECURSIVE CollapseNewlines(_)
\* result.replace(/\n{3,}/g, '\n\n')
CollapseNewlines(s) ==
    IF s = <<>> THEN <<>>
    ELSE IF Len(s) >= 3 /\ \A j \in 1..3 : CharsOf(s)[j] = "nl"
         THEN CollapseNewlines(Tail(s))
    ELSE <<s[1]>> \o CollapseNewlines(Tail(s))

RECURSIVE FormatBody(_)
\* the loop of formatCompact over doc.body.childNodes
FormatBody(k) ==
    IF k = <<>> THEN <<>>
    ELSE (IF IsText(Head(k))
          THEN IF Trim(Head(k).text) # <<>> THEN Chars(<<"nl">> \o Trim(Head(k).text)) ELSE <<>>
          ELSE formatElement(Head(k), FALSE, 0))
         \o FormatBody(Tail(k))

\* the lines of the result without their trailing white space, the empty
\* ones dropped
CleanLines(s) ==
    SelectSeq([i \in 1..Len(Split(s, Txt(<<"nl">>))) |->
                  SubSeq(Split(s, Txt(<<"nl">>))[i], 1,
                         Len(TrimEnd(CharsOf(Split(s, Txt(<<"nl">>))[i]))))],
              LAMBDA line : line # <<>>)

\* String.prototype.trim on formatted text
TrimText(s) == SubSeq(s, Len(s) - Len(TrimStart(CharsOf(s))) + 1, Len(TrimEnd(CharsOf(s))))

\* HTMLFormatter.formatCompact(html)
formatCompact(html) ==
    TrimText(CollapseNewlines(
        ReplaceEmpty(ReplaceEmpty(ReplaceEmpty(ReplaceEmpty(
            JoinLines(CleanLines(FormatBody(html))), 1), 2), 3), 4)))

RECURSIVE innerHTML(_)
\* Element.innerHTML: the markup of a child list, U+00A0 written as the
\* entity, no closing tag for a void element
innerHTML(k) ==
    IF k = <<>> THEN <<>>
    ELSE (IF IsText(Head(k))
          THEN Chars([i \in 1..Len(Head(k).text) |->
                         IF Head(k).text[i] = "nbsp" THEN "&nbsp;" ELSE Head(k).text[i]])
          ELSE <<OpenTag(Head(k))>>
                   \o (IF Head(k).tag \in SELF_CLOSING THEN <<>>
                       ELSE innerHTML(Head(k).kids) \o <<CloseTag(Head(k).tag)>>))
         \o innerHTML(Tail(k))

\* isInlineOnly: no tag of a block element in the text
isInlineOnly(html) ==
    \A i \in 1..Len(html) : IsElement(html[i]) => html[i].tag \notin BLOCK_ELEMENTS

\* the regex-based approach of formatCompact, taken when there is no
\* DOMParser or when the DOM approach threw: white space between two tags
\* goes, a line break comes before every opening tag of a block element, and
\* the loop over the lines pushes every line that is not empty; a line that
\* opens with a block element whose closing tag follows inline content hands
\* what follows the closing tag to the next line as well, and one whose
\* closing tag is alone on the next line is pushed with its rest twice
formatCompactFallback(html) ==
    LET RECURSIVE StripBetweenTags(_)
        StripBetweenTags(s) ==
            IF s = <<>> THEN <<>>
            ELSE IF /\ IsElement(s[1])
                    /\ \E j \in 3..Len(s) :
                          /\ IsElement(s[j])
                          /\ \A m \in 2..(j - 1) : IsText(s[m]) /\ IsWs(s[m].text[1])
                 THEN <<s[1]>> \o StripBetweenTags(SubSeq(s,
                          CHOOSE j \in 3..Len(s) :
                              /\ IsElement(s[j])
                              /\ \A m \in 2..(j - 1) : IsText(s[m]) /\ IsWs(s[m].text[1]),
                          Len(s)))
            ELSE <<s[1]>> \o StripBetweenTags(Tail(s))
        RECURSIVE BreakBeforeBlocks(_)
        BreakBeforeBlocks(s) ==
            IF s = <<>> THEN <<>>
            ELSE (IF /\ IsElement(s[1]) /\ s[1].text = <<>>
                     /\ s[1].tag \notin SELF_CLOSING
                     /\ s[1].tag \in BLOCK_ELEMENTS
                  THEN Chars(<<"nl">>) ELSE <<>>)
                 \o <<s[1]>> \o BreakBeforeBlocks(Tail(s))
        RECURSIVE MergeLines(_, _, _)
        MergeLines(lines, i, processed) ==
            IF i > Len(lines) THEN processed
            ELSE IF TrimText(lines[i]) = <<>> THEN MergeLines(lines, i + 1, processed)
            ELSE LET line == TrimText(lines[i])
                     rest == Tail(line)
                     closingTag == CloseTag(line[1].tag)
                     closing == {j \in 1..Len(rest) : rest[j] = closingTag}
                     closingIndex == CHOOSE j \in closing : \A m \in closing : j <= m
                 IN  IF ~(/\ IsElement(line[1]) /\ line[1].text = <<>>
                          /\ line[1].tag \in BLOCK_ELEMENTS)
                     THEN MergeLines(lines, i + 1, Append(processed, line))
                     ELSE IF closing # {}
                     THEN MergeLines(
                              IF /\ isInlineOnly(SubSeq(rest, 1, closingIndex - 1))
                                 /\ TrimText(SubSeq(rest, closingIndex + 1, Len(rest))) # <<>>
                              THEN IF i + 1 <= Len(lines)
                                   THEN [lines EXCEPT ![i + 1] =
                                            @ \o SubSeq(rest, closingIndex + 1, Len(rest))]
                                   ELSE Append(lines, SubSeq(rest, closingIndex + 1, Len(rest)))
                              ELSE lines,
                              i + 1, Append(processed, line))
                     ELSE IF /\ i + 1 <= Len(lines)
                             /\ TrimText(lines[i + 1]) = <<closingTag>>
                             /\ isInlineOnly(rest)
                     THEN MergeLines(lines, i + 2,
                                     Append(processed, line \o rest \o <<closingTag>>))
                     ELSE MergeLines(lines, i + 1, Append(processed, line))
    IN  TrimText(CollapseNewlines(JoinLines(
            MergeLines(Split(BreakBeforeBlocks(StripBetweenTags(TrimText(html))),
                             Txt(<<"nl">>)),
                       1, <<>>))))

-----------------------------------------------------------------------------
(* The parser, on formatted text.  Input domain: markup whose tags are
   properly nested and need no correction by the parser. *)

RECURSIVE ParseTokens(_, _)
\* DOMParser.parseFromString: stack holds the open elements, the body first
ParseTokens(s, stack) ==
    IF s = <<>>
    THEN IF Len(stack) = 1 THEN stack[1].kids
         ELSE ParseTokens(s, [SubSeq(stack, 1, Len(stack) - 1) EXCEPT
                                 ![Len(stack) - 1].kids = Append(@, stack[Len(stack)])])
    ELSE IF IsText(Head(s))
         THEN ParseTokens(Tail(s),
                  [stack EXCEPT ![Len(stack)].kids =
                      Append(@, Txt(IF Head(s).text = <<"&nbsp;">> THEN <<"nbsp">> ELSE Head(s).text))])
    ELSE IF Head(s).text = <<"/">>
         THEN IF Len(stack) = 1 THEN ParseTokens(Tail(s), stack)
              ELSE ParseTokens(Tail(s),
                      [SubSeq(stack, 1, Len(stack) - 1) EXCEPT
                          ![Len(stack) - 1].kids = Append(@, stack[Len(stack)])])
    ELSE IF Head(s).tag \in SELF_CLOSING
         THEN ParseTokens(Tail(s), [stack EXCEPT ![Len(stack)].kids = Append(@, Head(s))])
    ELSE ParseTokens(Tail(s), Append(stack, Head(s)))

\* the document the parser builds from formatted text
Parse(s) == Normalize(ParseTokens(s, <<El("body", <<>>)>>))

-----------------------------------------------------------------------------
(* The page: src/unnamed/part_005 *)

\* currentFeatures as the page sets it up
currentFeatures ==
    [headingStrong |-> TRUE, keyTakeaways |-> TRUE, h1Removal |-> TRUE,
     linkAttributes |-> TRUE, relativePaths |-> FALSE, spacing |-> TRUE]

\* the feature checkboxes of the page when it is loaded: the group
\* 'blogsFeature' has one checkbox per transform of blogs mode and the group
\* 'shoppablesFeature' one per transform of shoppables mode; each is
\* checked unless its transform is disabled by default
checkboxesAtLoad ==
    [blogsFeature |->
        [name \in {"headingStrong", "keyTakeaways", "h1Removal", "linkAttributes",
                   "olHeaderConversion", "spacing", "relativePaths", "sourcesNormalize"} |->
            name # "relativePaths"],
     shoppablesFeature |->
        [name \in {"headingStrong", "linkAttributes", "relativePaths", "olHeaderConversion",
                   "sourcesNormalize"} |->
            name # "relativePaths"]]

\* syncFeaturesFromCheckboxes: currentFeatures[checkbox.value] = checkbox.checked
\* for the blogs checkboxes first and for the shoppables checkboxes after them
syncFeaturesFromCheckboxes(features, boxes) ==
    boxes.shoppablesFeature @@ boxes.blogsFeature @@ features

\* convertToHtml up to the formatter: the document put into the output area
convertToHtml(html, mode, b) ==
    processMode(cleanHtml(sanitize(html, b)), mode, currentFeatures)

-----------------------------------------------------------------------------
(* Bounds *)

\* operations applied to one document
MaxSteps == 2

\* top-level nodes of a composed input document
MaxTop == 2

\* top-level nodes of an input of the OL header conversion
MaxOlTop == 3

\* top-level nodes that follow the opening section of an input of the spacing rules
MaxSpTop == 2

\* the largest number of top-level nodes of a pasted document
MaxPipeTop == 2

\* mode changes and checkbox changes in the page
MaxUiSteps == 3

SeqsUpTo(S, n) == UNION {[1..k -> S] : k \in 1..n}

-----------------------------------------------------------------------------
(* The sanitizer as a state machine *)

\* the documents handed to HTMLSanitizer.sanitize: one element with one of
\* the styles, URLs and attribute sets below, one element around an inline
\* element, or up to MaxTop nodes of a small pool
InitSan ==
    LET Decl(prop, val) == <<prop, ":">> \o val
        StyleBold == Decl("font-weight", <<"bold">>)
        StyleItalic == Decl("font-style", <<"italic">>)
        SanStyles ==
            {StyleBold, StyleItalic,
             Decl("font-weight", <<"700">>),
             Decl("font-weight", <<"400">>),
             StyleBold \o <<";", "sp">> \o StyleItalic,
             Decl("vertical-align", <<"super">>),
             Decl("vertical-align", <<"sub">>),
             Decl("vertical-align", <<"-", "35%">>),
             Decl("vertical-align", <<"baseline">>),
             Decl("vertical-align", <<"super">>) \o <<";">> \o StyleBold \o <<";">> \o StyleItalic,
             Decl("color", <<"red">>),
             Decl("background", <<"url(http", ":", "//x)">>) \o <<";">> \o StyleBold}
        SanUrls ==
            {<<"https:", "//host", "/", "a">>,
             <<"https:", "//host", "/", "a", "endash", "b">>,
             <<"javascript:", "alert(1)">>,
             <<"mailto:", "a@b">>,
             <<"page.html">>,
             <<"/", "a">>,
             <<"#", "top">>}
        SanAttrs ==
            {NoAttrs, ("class" :> <<"c">>), ("title" :> <<"t">>), ("onclick" :> <<"f()">>),
             ("id" :> <<"i">>) @@ ("style" :> StyleBold)}
            \cup {("style" :> st) : st \in SanStyles}
            \cup {("href" :> u) : u \in SanUrls}
            \cup {("href" :> <<"/", "a">>) @@ ("target" :> <<"_blank">>) @@ ("rel" :> <<"nofollow">>)}
        SanLeaf == Txt(<<"x">>)
        SanL1 ==
            {Elem(t, a, <<SanLeaf>>) : t \in {"span", "div", "p", "a", "strong"}, a \in SanAttrs}
            \cup {Elem("img", ("src" :> u) @@ ("alt" :> <<"pic">>) @@ ("width" :> <<"10">>), <<>>) :
                     u \in SanUrls}
        SanInner ==
            {Elem(t, a, <<SanLeaf>>) : t \in {"span", "a", "em"},
                a \in {NoAttrs, ("style" :> StyleBold), ("style" :> StyleItalic),
                       ("href" :> <<"/", "a">>) @@ ("class" :> <<"c">>)}}
        SanL2 ==
            {Elem(t, a, k) : t \in {"span", "p", "li"},
                a \in {NoAttrs, ("style" :> StyleBold), ("style" :> StyleItalic),
                       ("style" :> Decl("vertical-align", <<"sub">>) \o <<";">> \o StyleItalic),
                       ("class" :> <<"c">>)},
                k \in UNION {{<<n>>, <<Txt(<<"y">>), n>>, <<n, Txt(<<"y">>)>>} : n \in SanInner}}
        SanPool ==
            {Txt(<<"y">>),
             Elem("span", ("style" :> StyleBold), <<SanLeaf>>),
             Elem("span", NoAttrs, <<SanLeaf>>),
             Elem("p", ("class" :> <<"c">>), <<SanLeaf>>),
             Elem("div", NoAttrs, <<Elem("span", ("style" :> StyleItalic), <<SanLeaf>>)>>)}
    IN  /\ doc \in {Normalize(d) : d \in {<<n>> : n \in SanL1 \cup SanL2}
                                        \cup (SeqsUpTo(SanPool, MaxTop) \ SeqsUpTo(SanPool, 1))}
        /\ prev = doc
        /\ op = "input"
        /\ steps = 0
        /\ base \in {"https:", "file:"}
        /\ currentMode = "regular"
        /\ currentHtmlText = <<>>
        /\ featureFlags = currentFeatures
        /\ domParser = TRUE
        /\ raised = FALSE
        /\ checkboxes = checkboxesAtLoad

\* HTMLSanitizer.sanitize(html).  Without a document, document.createElement
\* throws a ReferenceError out of the call: the result <<Null>>.
Sanitize ==
    /\ steps < MaxSteps
    /\ doc # <<Null>>
    /\ doc' = IF domParser THEN sanitize(doc, base) ELSE <<Null>>
    /\ prev' = doc
    /\ op' = "sanitize"
    /\ steps' = steps + 1
    /\ UNCHANGED <<base, currentMode, currentHtmlText, featureFlags, domParser, raised, checkboxes>>

SpecSan == InitSan /\ [][Sanitize]_vars

-----------------------------------------------------------------------------
(* Link attributes as a state machine *)

\* the documents handed to ModeLinkAttributes.add: anchors with and without
\* href, target and rel, alone, inside a paragraph, or two in a row
InitLinks ==
    LET LinkRels == {<<"noopener">>, <<"noreferrer">>, <<"nofollow">>, <<>>,
                     <<"noopener", "sp", "noreferrer">>,
                     <<"nofollow", "sp", "noopener">>,
                     <<"x", "noopener">>,
                     <<"noreferrer", "sp", "nofollow">>}
        LinkHref == ("href" :> <<"https:", "//host", "/", "a">>)
        LinkAttrSets == {NoAttrs, LinkHref, LinkHref @@ ("target" :> <<"_self">>),
                         ("name" :> <<"n">>)}
                        \cup {LinkHref @@ ("rel" :> r) : r \in LinkRels}
                        \cup {("rel" :> <<"nofollow">>)}
        LinkAnchors == {Elem("a", a, <<Txt(<<"x">>)>>) : a \in LinkAttrSets}
    IN  /\ doc \in {<<n>> : n \in LinkAnchors \cup {El("p", <<Txt(<<"y">>), n>>) : n \in LinkAnchors}}
                   \cup {<<n, m>> : n \in LinkAnchors,
                                    m \in {Elem("a", LinkHref, <<Txt(<<"x">>)>>),
                                           Elem("a", LinkHref @@ ("rel" :> <<"x", "noopener">>),
                                                <<Txt(<<"x">>)>>)}}
        /\ prev = doc
        /\ op = "input"
        /\ steps = 0
        /\ base = "https:"
        /\ currentMode = "regular"
        /\ currentHtmlText = <<>>
        /\ featureFlags = currentFeatures
        /\ domParser = TRUE
        /\ raised = FALSE
        /\ checkboxes = checkboxesAtLoad

\* ModeLinkAttributes.add(html)
LinkAttributes ==
    /\ steps < MaxSteps
    /\ doc' = addLinkAttributes(doc)
    /\ prev' = doc
    /\ op' = "linkAttributes"
    /\ steps' = steps + 1
    /\ UNCHANGED <<base, currentMode, currentHtmlText, featureFlags, domParser, raised, checkboxes>>

SpecLinks == InitLinks /\ [][LinkAttributes]_vars

-----------------------------------------------------------------------------
(* Key takeaways formatting and H1 removal as a state machine *)

\* the documents handed to ModeKeyTakeaways.format and ModeH1Removal.remove:
\* an h2, what follows it up to the list, and what follows the list
InitKT ==
    LET KT == "Key Takeaways"
        KtHeadingKids ==
            {<<Txt(<<KT>>)>>,
             <<Txt(<<KT, ":">>)>>,
             <<El("strong", <<Txt(<<KT>>)>>)>>,
             <<El("strong", <<Txt(<<KT, ":">>)>>)>>,
             <<El("em", <<Txt(<<KT>>)>>)>>,
             <<El("strong", <<El("em", <<Txt(<<KT>>)>>), Txt(<<":">>)>>)>>,
             <<Txt(<<"Our", "sp">>), El("strong", <<Txt(<<KT>>)>>)>>,
             <<El("strong", <<Txt(<<KT>>)>>), Txt(<<"sp">>), El("em", <<Txt(<<"x">>)>>)>>,
             <<Txt(<<"KEY TAKEAWAYS">>)>>,
             <<Txt(<<"Intro">>), El("em", <<Txt(<<"x">>)>>)>>}
        KtLists ==
            {<<>>,
             <<El("ul", <<El("li", <<Txt(<<"a">>)>>)>>)>>,
             <<El("ul", <<El("li", <<El("em", <<Txt(<<"a">>)>>), Txt(<<"b">>)>>),
                          El("li", <<El("strong", <<El("em", <<El("em", <<Txt(<<"c">>)>>)>>)>>),
                                     El("ul", <<El("li", <<Txt(<<"d">>), El("em", <<>>)>>)>>)>>)>>)>>,
             <<El("ol", <<El("li", <<El("em", <<Txt(<<"a">>)>>)>>)>>)>>,
             <<El("p", <<El("em", <<Txt(<<"p">>)>>)>>),
               El("ul", <<El("li", <<Txt(<<"a">>), El("em", <<Txt(<<"b">>)>>), Txt(<<"c">>)>>)>>)>>}
        KtTails ==
            {<<>>,
             <<El("h1", <<Txt(<<"T">>)>>)>>,
             <<Txt(<<"nl">>), El("h1", <<Txt(<<"T">>)>>), Txt(<<"nl">>)>>,
             <<El("p", <<Txt(<<"q">>)>>), El("h1", <<Txt(<<"T">>)>>)>>,
             <<El("h1", <<Txt(<<"T">>)>>), El("h1", <<Txt(<<"U">>)>>)>>,
             <<El("h2", <<Txt(<<KT>>)>>), El("ul", <<>>), El("h1", <<Txt(<<"V">>)>>)>>}
        KtSections(hs) == {<<El("h2", h)>> \o l \o t : h \in hs, l \in KtLists, t \in KtTails}
    IN  /\ doc \in {Normalize(d) :
                      d \in KtSections(KtHeadingKids)
                            \cup {<<El("blockquote", d)>> : d \in KtSections({<<Txt(<<KT>>)>>})}
                            \cup {<<El("h1", <<Txt(<<"T">>)>>)>> \o d :
                                     d \in KtSections({<<El("em", <<Txt(<<KT>>)>>)>>})}}
        /\ prev = doc
        /\ op = "input"
        /\ steps = 0
        /\ base = "https:"
        /\ currentMode = "regular"
        /\ currentHtmlText = <<>>
        /\ featureFlags = currentFeatures
        /\ domParser = TRUE
        /\ raised = FALSE
        /\ checkboxes = checkboxesAtLoad

\* ModeKeyTakeaways.format(html)
KeyTakeaways ==
    /\ steps < MaxSteps
    /\ doc' = formatKeyTakeaways(doc)
    /\ prev' = doc
    /\ op' = "keyTakeaways"
    /\ steps' = steps + 1
    /\ UNCHANGED <<base, currentMode, currentHtmlText, featureFlags, domParser, raised, checkboxes>>

\* ModeH1Removal.remove(html)
H1Removal ==
    /\ steps < MaxSteps
    /\ doc' = removeH1AfterKeyTakeaways(doc)
    /\ prev' = doc
    /\ op' = "h1Removal"
    /\ steps' = steps + 1
    /\ UNCHANGED <<base, currentMode, currentHtmlText, featureFlags, domParser, raised, checkboxes>>

SpecKT == InitKT /\ [][KeyTakeaways \/ H1Removal]_vars

-----------------------------------------------------------------------------
(* OL header conversion as a state machine *)

\* an ol whose items each hold a strong around an h3 with the given text
HeaderList(names) ==
    El("ol", [i \in 1..Len(names) |->
                 El("li", <<El("strong", <<El("h3", <<Txt(<<names[i]>>)>>)>>)>>)])

\* the documents handed to ModeOlHeaderConversion.convert: up to MaxOlTop
\* nodes out of headings, heading lists, an ordinary list and paragraphs,
\* and two h2 sections with a three-item heading list each
InitOl ==
    LET OlItem(h) == El("li", <<El("strong", <<h>>)>>)
        OlOne == El("ol", <<OlItem(El("h3", <<El("strong", <<Txt(<<"One", "sp">>)>>)>>))>>)
        OlThree ==
            El("ol", <<Txt(<<"nl">>),
                       OlItem(El("h3", <<Txt(<<"One">>)>>)),
                       El("li", <<Txt(<<"nl">>), El("strong", <<El("h3", <<Txt(<<"sp", "Two">>)>>),
                                                                 Txt(<<"nl">>)>>)>>),
                       OlItem(El("h4", <<Txt(<<"Three">>), El("em", <<Txt(<<"x">>)>>)>>))>>)
        OlPlain == El("ol", <<El("li", <<Txt(<<"a">>)>>), El("li", <<El("strong", <<Txt(<<"b">>)>>)>>)>>)
        OlPool == {El("h2", <<Txt(<<"Section">>)>>), El("h1", <<Txt(<<"Title">>)>>),
                   OlOne, HeaderList(<<"One", "Two">>), OlThree, OlPlain,
                   El("p", <<Txt(<<"text">>)>>), El("p", <<Txt(<<"nbsp">>)>>),
                   El("blockquote", <<HeaderList(<<"One", "Two">>)>>)}
    IN  /\ doc \in SeqsUpTo(OlPool, MaxOlTop)
                   \cup {<<El("h2", <<Txt(<<"Section">>)>>), OlThree,
                           El("h2", <<Txt(<<"Other">>)>>), OlThree>>}
        /\ prev = doc
        /\ op = "input"
        /\ steps = 0
        /\ base = "https:"
        /\ currentMode = "regular"
        /\ currentHtmlText = <<>>
        /\ featureFlags = currentFeatures
        /\ domParser = TRUE
        /\ raised = FALSE
        /\ checkboxes = checkboxesAtLoad

\* ModeOlHeaderConversion.convert(html)
OlHeaderConversion ==
    /\ steps < MaxSteps
    /\ doc' = convertOlHeaders(doc)
    /\ prev' = doc
    /\ op' = "olHeaderConversion"
    /\ steps' = steps + 1
    /\ UNCHANGED <<base, currentMode, currentHtmlText, featureFlags, domParser, raised, checkboxes>>

SpecOl == InitOl /\ [][OlHeaderConversion]_vars

-----------------------------------------------------------------------------
(* Spacing rules as a state machine *)

\* the documents handed to ModeSpacing.add: an optional opening section
\* followed by up to MaxSpTop nodes of a pool, at top level or in a
\* blockquote, without two spacing paragraphs that are consecutive element
\* siblings
InitSpacing ==
    LET SpPool == {El("h2", <<Txt(<<"Intro">>)>>),
                   El("h3", <<Txt(<<"Question">>)>>),
                   El("h2", <<Txt(<<"FAQ">>)>>),
                   El("h3", <<Txt(<<"FAQ">>)>>),
                   El("p", <<Txt(<<"text">>)>>),
                   Spacing,
                   El("p", <<Txt(<<"sp", "nbsp", "nl">>)>>),
                   El("p", <<El("strong", <<Txt(<<"nbsp">>)>>)>>),
                   El("p", <<El("strong", <<Txt(<<"Sources", ":">>)>>), Txt(<<"sp", "s">>)>>),
                   El("p", <<Txt(<<"Disclaimer", ":", "sp", "Alt Image Text", ":">>)>>),
                   El("p", <<Txt(<<"Read also", ":">>)>>),
                   El("ul", <<El("li", <<El("p", <<Txt(<<"Alt Image Text", ":">>)>>)>>)>>),
                   Txt(<<"nl">>)}
        SpSections == {<<>>,
                       <<El("h2", <<Txt(<<"Key Takeaways">>)>>), El("ul", <<El("li", <<Txt(<<"a">>)>>)>>)>>,
                       <<El("h2", <<Txt(<<"FAQ">>)>>)>>}
        SpSeqs == SeqsUpTo(SpPool, MaxSpTop) \cup {<<>>}
        HasConsecutiveSpacing(d) ==
            \E p \in Range(ElementPaths(d)) :
                /\ NodeAt(d, p) = Spacing
                /\ PrevElementIndex(KidsAt(d, ParentPath(p)), IndexOf(p)) # 0
                /\ KidsAt(d, ParentPath(p))[PrevElementIndex(KidsAt(d, ParentPath(p)), IndexOf(p))]
                      = Spacing
    IN  /\ doc \in {d \in {Normalize(x) : x \in {pre \o t : pre \in SpSections, t \in SpSeqs}
                                                 \cup {<<El("blockquote", t)>> : t \in SpSeqs}} :
                      ~HasConsecutiveSpacing(d)}
        /\ prev = doc
        /\ op = "input"
        /\ steps = 0
        /\ base = "https:"
        /\ currentMode = "regular"
        /\ currentHtmlText = <<>>
        /\ featureFlags = currentFeatures
        /\ domParser = TRUE
        /\ raised = FALSE
        /\ checkboxes = checkboxesAtLoad

\* ModeSpacing.add(html), on the input or again on its own output
AddSpacing ==
    /\ steps < MaxSteps
    /\ doc' = addSpacing(doc)
    /\ prev' = doc
    /\ op' = "spacing"
    /\ steps' = steps + 1
    /\ UNCHANGED <<base, currentMode, currentHtmlText, featureFlags, domParser, raised, checkboxes>>

SpecSpacing == InitSpacing /\ [][AddSpacing]_vars

-----------------------------------------------------------------------------
(* The page as a state machine: a document is pasted and converted, and the
   HTML code the page shows is pasted back and converted again *)

\* the documents pasted into the page: up to MaxPipeTop nodes of a pool of
\* paragraphs, headings, lists, a table, links and text
InitPage ==
    LET P(s) == El("p", <<Txt(s)>>)
        Item(k) == El("ul", <<El("li", k)>>)
        PagePool ==
            {P(<<"a">>),
             El("h2", <<Txt(<<"Key Takeaways">>)>>),
             El("h1", <<Txt(<<"Title">>)>>),
             Item(<<El("em", <<El("strong", <<Txt(<<"Note", ":">>)>>)>>)>>),
             Item(<<El("strong", <<Txt(<<"Label", ":", "sp">>)>>), Txt(<<"sp", "sp", "rest">>)>>),
             Item(<<El("p", <<El("strong", <<El("em", <<Txt(<<"x">>)>>), Txt(<<"y">>)>>)>>)>>),
             HeaderList(<<"One">>),
             El("p", <<El("strong", <<Txt(<<"nbsp">>)>>)>>),
             El("table", <<El("tbody", <<El("tr", <<El("td", <<Txt(<<"a">>)>>),
                                                    El("td", <<>>)>>)>>)>>),
             El("p", <<Txt(<<"a">>), El("br", <<>>), Txt(<<"b">>)>>),
             El("br", <<>>),
             Elem("span", ("style" :> <<"font-style", ":", "italic">>), <<Txt(<<"x">>)>>),
             Elem("a", ("href" :> <<"https:", "//host", "/", "a">>), <<Txt(<<"sp", "link", "sp">>)>>),
             P(<<"Sources">>),
             El("ol", <<El("li", <<Txt(<<"ref">>)>>)>>),
             Txt(<<"sp", "text", "sp">>)}
    IN  /\ doc \in {Normalize(d) : d \in SeqsUpTo(PagePool, MaxPipeTop)}
        /\ prev = doc
        /\ op = "input"
        /\ steps = 0
        /\ base = "https:"
        /\ currentMode \in {"regular", "blogs", "shoppables"}
        /\ currentHtmlText = <<>>
        /\ featureFlags = currentFeatures
        /\ domParser = TRUE
        /\ raised = FALSE
        /\ checkboxes = checkboxesAtLoad

\* convertToHtml(html): of the pasted document first, of the parsed HTML
\* code after that
ConvertToHtml ==
    /\ steps < MaxSteps
    /\ \E html \in {IF op = "input" THEN doc ELSE Parse(currentHtmlText)} :
          /\ doc' = convertToHtml(html, currentMode, base)
          /\ prev' = html
    /\ currentHtmlText' = formatCompact(doc')
    /\ op' = "convertToHtml"
    /\ steps' = steps + 1
    /\ UNCHANGED <<base, currentMode, featureFlags, domParser, raised, checkboxes>>

SpecPage == InitPage /\ [][ConvertToHtml]_vars

-----------------------------------------------------------------------------
(* Heading strong tags as a state machine *)

\* the documents handed to ModeHeadingStrong.wrap: up to MaxTop nodes out of
\* headings with text, with one strong, with a strong beside text or
\* another element, with no content, and a heading inside a blockquote
InitHeading ==
    LET Strong == El("strong", <<Txt(<<"Bold">>)>>)
        HeadingKids == {<<Txt(<<"Title">>)>>,
                        <<Strong>>,
                        <<Strong, Txt(<<"sp", "rest">>)>>,
                        <<Txt(<<"Intro", "sp">>), Strong>>,
                        <<Strong, El("em", <<Txt(<<"x">>)>>)>>,
                        <<El("em", <<Txt(<<"x">>)>>)>>,
                        <<El("em", <<Strong>>)>>,
                        <<Txt(<<"sp">>)>>,
                        <<>>}
        HeadingPool == {El(t, k) : t \in {"h1", "h2", "h4"}, k \in HeadingKids}
                       \cup {El("p", <<Strong>>),
                             El("blockquote", <<El("h3", <<Txt(<<"Quote">>)>>)>>),
                             Elem("h2", ("id" :> <<"i">>), <<Txt(<<"Title">>)>>)}
    IN  /\ doc \in SeqsUpTo(HeadingPool, MaxTop)
        /\ prev = doc
        /\ op = "input"
        /\ steps = 0
        /\ base = "https:"
        /\ currentMode = "regular"
        /\ currentHtmlText = <<>>
        /\ featureFlags = currentFeatures
        /\ domParser = TRUE
        /\ raised = FALSE
        /\ checkboxes = checkboxesAtLoad

\* ModeHeadingStrong.wrap(html)
HeadingStrong ==
    /\ steps < MaxSteps
    /\ doc' = wrapHeadingsInStrong(doc)
    /\ prev' = doc
    /\ op' = "headingStrong"
    /\ steps' = steps + 1
    /\ UNCHANGED <<base, currentMode, currentHtmlText, featureFlags, domParser, raised, checkboxes>>

SpecHeading == InitHeading /\ [][HeadingStrong]_vars

-----------------------------------------------------------------------------
(* The cleaner as a state machine *)

\* the documents handed to HTMLCleaner.clean: up to MaxTop nodes out of
\* paragraphs, line breaks, lists with paragraphs and line breaks in their
\* items, a div, a span, links with white space around their text, after a
\* child element and inside one, and text, and a paragraph, a line break and
\* a list in a row
InitClean ==
    LET P(k) == El("p", k)
        Br == El("br", <<>>)
        Item(k) == El("ul", <<El("li", k)>>)
        CleanPool ==
            {P(<<Txt(<<"a">>)>>),
             P(<<Txt(<<"a">>), Br, Txt(<<"b">>)>>),
             P(<<Br, Txt(<<"a">>)>>),
             P(<<El("em", <<Txt(<<"a">>)>>), Br>>),
             Br,
             Item(<<P(<<Txt(<<"x">>)>>)>>),
             Item(<<P(<<Txt(<<"x">>), Br>>), Br, P(<<El("em", <<Txt(<<"y">>)>>)>>)>>),
             Item(<<El("em", <<P(<<Txt(<<"x">>)>>), Br>>)>>),
             Item(<<El("strong", <<El("em", <<Txt(<<"x">>)>>), Txt(<<"y">>)>>),
                    El("em", <<Txt(<<"z">>)>>)>>),
             Item(<<El("strong", <<Txt(<<"w">>), El("em", <<Txt(<<"x">>)>>), Txt(<<"y">>),
                                   El("b", <<Txt(<<"z">>)>>)>>)>>),
             Item(<<El("em", <<El("strong", <<Txt(<<"x">>)>>), Txt(<<"y">>)>>)>>),
             El("span", <<Txt(<<"x">>), Br, Txt(<<"y">>)>>),
             El("div", <<P(<<Txt(<<"a">>)>>), Br>>),
             Elem("a", ("href" :> <<"/", "a">>), <<Txt(<<"sp", "link", "sp">>)>>),
             Elem("a", ("href" :> <<"/", "a">>), <<El("b", <<Txt(<<"x">>)>>), Txt(<<"sp", "y">>)>>),
             Elem("a", ("href" :> <<"/", "a">>), <<El("strong", <<Txt(<<"sp", "link", "sp">>)>>)>>),
             Txt(<<"text">>)}
    IN  /\ doc \in {Normalize(d) : d \in SeqsUpTo(CleanPool, MaxTop)}
                   \cup {<<P(<<Txt(<<"a">>)>>), Br, Item(<<P(<<Txt(<<"b">>)>>), Br>>)>>}
        /\ prev = doc
        /\ op = "input"
        /\ steps = 0
        /\ base = "https:"
        /\ currentMode = "regular"
        /\ currentHtmlText = <<>>
        /\ featureFlags = currentFeatures
        /\ domParser = TRUE
        /\ raised = FALSE
        /\ checkboxes = checkboxesAtLoad

\* HTMLCleaner.clean(html): the html itself when there is no DOMParser
Clean ==
    /\ steps < MaxSteps
    /\ doc # <<Null>>
    /\ doc' = IF domParser THEN cleanHtml(doc) ELSE doc
    /\ prev' = doc
    /\ op' = "clean"
    /\ steps' = steps + 1
    /\ UNCHANGED <<base, currentMode, currentHtmlText, featureFlags, domParser, raised, checkboxes>>

SpecClean == InitClean /\ [][Clean]_vars

-----------------------------------------------------------------------------
(* The mode processor as a state machine: ModeProcessor.process is called
   with a document, a mode and a map of feature flags *)

\* the documents: an opening section (none, or a key-takeaways section with
\* em tags followed by an h1) and up to MaxTop nodes of a pool of a heading,
\* paragraphs, links, a header list, a Sources section, a list item whose
\* strong sits in an em and a list item that holds a heading ending in a colon.  The flags: no map (Null), the empty map, one flag
\* set to true or to false, and every flag set to true or to false.
InitMode ==
    LET FeatureNames == {"headingStrong", "keyTakeaways", "h1Removal", "linkAttributes",
                         "olHeaderConversion", "spacing", "relativePaths", "sourcesNormalize"}
        FeatureMaps == {Null, NoAttrs}
                           \cup {name :> v : name \in FeatureNames, v \in BOOLEAN}
                           \cup {[name \in FeatureNames |-> v] : v \in BOOLEAN}
        ModeSections ==
            {<<>>,
             <<El("h2", <<El("em", <<Txt(<<"Key Takeaways">>)>>)>>),
               El("ul", <<El("li", <<El("em", <<Txt(<<"a">>)>>)>>)>>),
               El("h1", <<Txt(<<"Title">>)>>)>>}
        ModePool ==
            {El("h2", <<Txt(<<"Intro">>)>>),
             El("p", <<Txt(<<"a">>)>>),
             El("p", <<Elem("a", ("href" :> <<"https:", "//host", "/", "a">>), <<Txt(<<"link">>)>>)>>),
             Elem("a", ("href" :> <<"/", "a">>) @@ ("target" :> <<"_self">>), <<Txt(<<"link">>)>>),
             HeaderList(<<"One">>),
             El("p", <<Txt(<<"Sources">>)>>),
             El("ol", <<El("li", <<Txt(<<"ref">>)>>)>>),
             El("ul", <<El("li", <<El("em", <<El("strong", <<Txt(<<"Note", ":">>)>>)>>)>>)>>),
             El("ul", <<El("li", <<El("h3", <<Txt(<<"Title", ":">>)>>), Txt(<<"x">>)>>)>>)}
    IN  /\ doc \in {Normalize(pre \o t) : pre \in ModeSections,
                                          t \in SeqsUpTo(ModePool, MaxTop) \cup {<<>>}}
        /\ prev = doc
        /\ op = "input"
        /\ steps = 0
        /\ base = "https:"
        /\ currentMode \in {"regular", "blogs", "shoppables"}
        /\ currentHtmlText = <<>>
        /\ featureFlags \in FeatureMaps
        /\ domParser = TRUE
        /\ raised = FALSE
        /\ checkboxes = checkboxesAtLoad

\* ModeProcessor.process(html, mode, features); nothing follows a call that
\* threw.  Without a DOMParser every mode utility returns its html.
ProcessMode ==
    /\ steps < MaxSteps
    /\ doc # <<Null>>
    /\ doc' = IF domParser THEN processMode(doc, currentMode, featureFlags)
              ELSE IF currentMode \in {"blogs", "shoppables"} /\ featureFlags = Null
                   THEN <<Null>>
              ELSE doc
    /\ prev' = doc
    /\ op' = "processMode"
    /\ steps' = steps + 1
    /\ UNCHANGED <<base, currentMode, currentHtmlText, featureFlags, domParser, raised, checkboxes>>

SpecMode == InitMode /\ [][ProcessMode]_vars

-----------------------------------------------------------------------------
(* The stages of convertToHtml as a state machine: the sanitizer, the
   cleaner, the mode processor and the formatter, called one after the
   other in a runtime with or without DOMParser and document *)

\* up to MaxTop nodes of a pool of paragraphs, text, a list, an anchor whose
\* only text is white space, a link with a relative path and a styled span
InitStages ==
    LET StagePool ==
            {El("p", <<Txt(<<"a">>)>>),
             El("p", <<Txt(<<"b", "nl">>)>>),
             El("h2", <<Txt(<<"Intro">>)>>),
             El("ul", <<El("li", <<El("p", <<Txt(<<"x">>)>>)>>)>>),
             El("p", <<El("a", <<Txt(<<"sp">>)>>)>>),
             Elem("a", ("href" :> <<"page.html">>), <<Txt(<<"link">>)>>),
             Elem("span", ("style" :> <<"font-style", ":", "italic">>), <<Txt(<<"x">>)>>),
             El("br", <<>>),
             Txt(<<"sp", "tail">>)}
    IN  /\ doc \in {Normalize(d) : d \in SeqsUpTo(StagePool, MaxTop)}
        /\ prev = doc
        /\ op = "input"
        /\ steps = 0
        /\ base = "https:"
        /\ currentMode \in {"regular", "blogs", "shoppables"}
        /\ currentHtmlText = <<>>
        /\ featureFlags = currentFeatures
        /\ domParser \in BOOLEAN
        /\ raised = FALSE
        /\ checkboxes = checkboxesAtLoad

\* HTMLFormatter.formatCompact(html) on the markup of the document: the DOM
\* approach when there is a DOMParser, the regex-based approach when there is
\* none or when the DOM approach threw
FormatCompact ==
    /\ steps < MaxSteps
    /\ doc # <<Null>>
    /\ \E threw \in BOOLEAN :
          /\ raised' = (domParser /\ threw)
          /\ currentHtmlText' = IF doc = <<>> THEN <<>>
                                ELSE IF domParser /\ ~threw THEN formatCompact(doc)
                                ELSE formatCompactFallback(innerHTML(doc))
    /\ doc' = doc
    /\ prev' = doc
    /\ op' = "formatCompact"
    /\ steps' = steps + 1
    /\ UNCHANGED <<base, currentMode, featureFlags, domParser, checkboxes>>

SpecStages == InitStages /\ [][Sanitize \/ Clean \/ ProcessMode \/ FormatCompact]_vars

-----------------------------------------------------------------------------
(* List normalization as a state machine *)

\* up to MaxTop lists of one item.  The items: a strong with a colon as a
\* direct child of the li, followed by text, by an element or by nothing,
\* with and without white space after the colon; the same strong inside an
\* em; a strong whose colon is inside an em; a strong without a colon
InitLists ==
    LET Strong(s) == El("strong", <<Txt(s)>>)
        ItemKids ==
            {<<Strong(<<"Label", ":">>), Txt(<<"rest">>)>>,
             <<Strong(<<"Label", ":", "sp">>), Txt(<<"sp", "sp", "rest">>)>>,
             <<Strong(<<"Label", ":">>), El("em", <<Txt(<<"x">>)>>)>>,
             <<Strong(<<"Label", ":">>)>>,
             <<El("em", <<Strong(<<"Note", ":">>)>>)>>,
             <<El("em", <<Strong(<<"Note", ":">>), Txt(<<"rest">>)>>)>>,
             <<El("em", <<Strong(<<"Note", ":">>), El("a", <<Txt(<<"x">>)>>)>>)>>,
             <<El("strong", <<El("em", <<Txt(<<"Label", ":", "sp">>)>>)>>), Txt(<<"rest">>)>>,
             <<Strong(<<"plain">>), Txt(<<"rest">>)>>,
             <<Txt(<<"a">>)>>}
    IN  /\ doc \in SeqsUpTo({El("ul", <<El("li", k)>>) : k \in ItemKids}, MaxTop)
        /\ prev = doc
        /\ op = "input"
        /\ steps = 0
        /\ base = "https:"
        /\ currentMode = "regular"
        /\ currentHtmlText = <<>>
        /\ featureFlags = currentFeatures
        /\ domParser = TRUE
        /\ raised = FALSE
        /\ checkboxes = checkboxesAtLoad

\* ModeListNormalize.normalize(html), on the input or again on its own output
NormalizeLists ==
    /\ steps < MaxSteps
    /\ doc' = normalizeLists(doc)
    /\ prev' = doc
    /\ op' = "normalizeLists"
    /\ steps' = steps + 1
    /\ UNCHANGED <<base, currentMode, currentHtmlText, featureFlags, domParser, raised, checkboxes>>

SpecLists == InitLists /\ [][NormalizeLists]_vars

-----------------------------------------------------------------------------
(* Sources normalization as a state machine *)

\* a paragraph, nothing or one other element, and nothing or an ol of up
\* to MaxTop items.  The paragraphs: 'Sources' with and without the colon,
\* in a strong, with white space around it, and one that only starts with
\* 'Sources:'.  The items: plain text, an em, an em with text or white space
\* next to it, a link followed by text, a paragraph, a nested list.
InitSources ==
    LET Paragraphs ==
            {El("p", <<Txt(<<"Sources">>)>>),
             El("p", <<Txt(<<"sources", ":">>)>>),
             El("p", <<El("strong", <<Txt(<<"Sources", ":">>)>>), Txt(<<"sp">>)>>),
             El("p", <<El("strong", <<El("em", <<Txt(<<"Sources", ":">>)>>)>>)>>),
             El("p", <<Txt(<<"Sources", ":", "sp", "s">>)>>)}
        Between == {<<>>, <<El("p", <<Txt(<<"a">>)>>)>>, <<El("ul", <<El("li", <<Txt(<<"b">>)>>)>>)>>}
        Items ==
            {El("li", <<Txt(<<"ref">>)>>),
             El("li", <<El("em", <<Txt(<<"ref">>)>>)>>),
             El("li", <<El("em", <<Txt(<<"ref">>)>>), Txt(<<"sp", "more">>)>>),
             El("li", <<Txt(<<"sp">>), El("em", <<Txt(<<"ref">>)>>)>>),
             El("li", <<Elem("a", ("href" :> <<"/", "a">>), <<Txt(<<"link">>)>>), Txt(<<"sp", "ref">>)>>),
             El("li", <<El("p", <<Txt(<<"ref">>)>>)>>),
             El("li", <<Txt(<<"ref">>), El("ul", <<El("li", <<Txt(<<"sub">>)>>)>>)>>)}
        Lists == {<<>>} \cup {<<El("ol", items)>> : items \in SeqsUpTo(Items, MaxTop)}
    IN  /\ doc \in {<<p>> \o between \o list :
                        p \in Paragraphs, between \in Between, list \in Lists}
        /\ prev = doc
        /\ op = "input"
        /\ steps = 0
        /\ base = "https:"
        /\ currentMode = "blogs"
        /\ currentHtmlText = <<>>
        /\ featureFlags = currentFeatures
        /\ domParser = TRUE
        /\ raised = FALSE
        /\ checkboxes = checkboxesAtLoad

\* ModeSourcesNormalize.normalize(html), on the input or again on its own output
NormalizeSources ==
    /\ steps < MaxSteps
    /\ doc' = normalizeSources(doc)
    /\ prev' = doc
    /\ op' = "sourcesNormalize"
    /\ steps' = steps + 1
    /\ UNCHANGED <<base, currentMode, currentHtmlText, featureFlags, domParser, raised, checkboxes>>

SpecSources == InitSources /\ [][NormalizeSources]_vars

-----------------------------------------------------------------------------
(* The mode radio buttons and the feature checkboxes of the page as a state
   machine.  prev is the content of the input area, doc the document that
   the last run of the pipeline produced. *)

\* the page after init(): mode 'regular', the flags synchronised with the
\* checkboxes by setupModeHandlers, an input area that is empty or holds a
\* heading and a paragraph with a link
InitUi ==
    /\ prev \in {<<>>,
                 <<El("h2", <<Txt(<<"Intro">>)>>),
                   El("p", <<Elem("a", ("href" :> <<"https:", "//host", "/", "a">>),
                                  <<Txt(<<"link">>)>>)>>)>>}
    /\ doc = prev
    /\ op = "input"
    /\ steps = 0
    /\ base = "https:"
    /\ currentMode = "regular"
    /\ currentHtmlText = <<>>
    /\ checkboxes = checkboxesAtLoad
    /\ featureFlags = syncFeaturesFromCheckboxes(currentFeatures, checkboxes)
    /\ domParser = TRUE
    /\ raised = FALSE

\* change handler of a mode radio button, fired when another mode is
\* selected: the mode, the flags synchronised
\* again, and the pipeline on the content of the input area if there is any
ModeChange ==
    /\ steps < MaxUiSteps
    /\ \E value \in {"regular", "blogs", "shoppables"} \ {currentMode} : currentMode' = value
    /\ featureFlags' = syncFeaturesFromCheckboxes(featureFlags, checkboxes)
    /\ doc' = IF prev = <<>> THEN doc
              ELSE processMode(cleanHtml(sanitize(prev, base)), currentMode', featureFlags')
    /\ currentHtmlText' = IF prev = <<>> THEN currentHtmlText ELSE formatCompact(doc')
    /\ op' = "modeChange"
    /\ steps' = steps + 1
    /\ UNCHANGED <<prev, base, domParser, raised, checkboxes>>

\* change handler of a blogs checkbox, which is displayed in blogs mode
BlogsFeatureChange ==
    /\ steps < MaxUiSteps
    /\ currentMode = "blogs"
    /\ \E value \in DOMAIN checkboxes.blogsFeature :
          /\ checkboxes' = [checkboxes EXCEPT !.blogsFeature[value] = ~@]
          /\ featureFlags' = (value :> checkboxes'.blogsFeature[value]) @@ featureFlags
    /\ doc' = IF prev = <<>> THEN doc
              ELSE processMode(cleanHtml(sanitize(prev, base)), currentMode, featureFlags')
    /\ currentHtmlText' = IF prev = <<>> THEN currentHtmlText ELSE formatCompact(doc')
    /\ op' = "blogsFeatureChange"
    /\ steps' = steps + 1
    /\ UNCHANGED <<prev, base, currentMode, domParser, raised>>

\* change handler of a shoppables checkbox, which is displayed in shoppables mode
ShoppablesFeatureChange ==
    /\ steps < MaxUiSteps
    /\ currentMode = "shoppables"
    /\ \E value \in DOMAIN checkboxes.shoppablesFeature :
          /\ checkboxes' = [checkboxes EXCEPT !.shoppablesFeature[value] = ~@]
          /\ featureFlags' = (value :> checkboxes'.shoppablesFeature[value]) @@ featureFlags
    /\ doc' = IF prev = <<>> THEN doc
              ELSE processMode(cleanHtml(sanitize(prev, base)), currentMode, featureFlags')
    /\ currentHtmlText' = IF prev = <<>> THEN currentHtmlText ELSE formatCompact(doc')
    /\ op' = "shoppablesFeatureChange"
    /\ steps' = steps + 1
    /\ UNCHANGED <<prev, base, currentMode, domParser, raised>>

SpecUi == InitUi /\ [][ModeChange \/ BlogsFeatureChange \/ ShoppablesFeatureChange]_vars

-----------------------------------------------------------------------------
(* Claims *)

\* C1: in every mode, with the default feature flags, converting the HTML
\* code that a conversion produced gives that same HTML code again:
\* pipeline(pipeline(x)) = pipeline(x)
C1_PipelineIdempotent ==
    [][op = "convertToHtml" => currentHtmlText' = currentHtmlText]_vars

RECURSIVE C10_Canon(_)
\* a tree without the white space a formatter may add or drop: spaces and
\* line breaks are taken out of every text node, U+00A0 is kept
C10_Canon(k) ==
    Normalize([i \in 1..Len(k) |->
                  IF IsText(k[i])
                  THEN Txt(SelectSeq(k[i].text, LAMBDA l : ~IsHtmlWs(l)))
                  ELSE [k[i] EXCEPT !.kids = C10_Canon(@)]])

\* C10: parsing the text formatCompact makes of a converted document gives
\* a tree with the same elements, attributes and text in the same order
C10_ParseInvertsFormat ==
    op = "convertToHtml" => C10_Canon(Parse(currentHtmlText)) = C10_Canon(doc)

\* the per-tag attribute allow-list of the claim
C2_AttrAllowList(tagName) == IF tagName = "a" THEN {"href"}
                          ELSE IF tagName = "img" THEN {"src", "alt"} ELSE {}

\* C2: after HTMLSanitizer.sanitize no element has a tag outside the
\* allow-list and no element carries an attribute other than href on a and
\* src/alt on img.
C2_AllowListClosure ==
    op = "sanitize" =>
        \A e \in AllElements(doc) :
            /\ e.tag \in {"h1", "h2", "h3", "h4", "h5", "h6", "p", "br", "hr", "ul", "ol", "li",
                          "em", "i", "strong", "b", "sup", "sub", "a", "img", "blockquote",
                          "pre", "code", "table", "thead", "tbody", "tr", "th", "td"}
            /\ DOMAIN e.attrs \subseteq C2_AttrAllowList(e.tag)

\* a sanitized document whose input had a disallowed tag and, on an allowed
\* element, an attribute outside the allow-list
C2_Witness ==
    /\ op = "sanitize"
    /\ \E e \in AllElements(prev) : e.tag = "span"
    /\ \E e \in AllElements(prev) : e.tag \in {"a", "p"} /\ "class" \in DOMAIN e.attrs
    /\ \E e \in AllElements(doc) : e.tag = "a" /\ DOMAIN e.attrs = {"href"}

\* the wrapper tags the hints of a style call for, outermost first
C9_Tags(style) ==
    (IF isSuperscript(style) THEN <<"sup">>
     ELSE IF isSubscript(style) THEN <<"sub">> ELSE <<>>)
    \o (IF isBold(style) THEN <<"strong">> ELSE <<>>)
    \o (IF isItalic(style) THEN <<"em">> ELSE <<>>)

RECURSIVE C9_Nest(_, _)
C9_Nest(tags, kids) ==
    IF tags = <<>> THEN kids ELSE <<El(Head(tags), C9_Nest(Tail(tags), kids))>>

\* what the claim says stands in the place of each top-level node
RECURSIVE C9_Image(_, _)
C9_Image(k, b) ==
    IF k = <<>> THEN <<>>
    ELSE (IF IsElement(Head(k)) /\ Head(k).tag \notin ALLOWED_ELEMENTS
          THEN C9_Nest(C9_Tags(StyleOf(Head(k))), sanitizeElement(Head(k).kids, b))
          ELSE sanitizeElement(<<Head(k)>>, b))
         \o C9_Image(Tail(k), b)

\* C9: sanitize replaces a disallowed element that carries presentation hints
\* by wrappers nested sup/sub > strong > em around its sanitized children in
\* their order, and unwraps a disallowed element without hints; the span with
\* font-weight:bold around x becomes strong around x, without attributes.
C9_SemanticWrappers ==
    op = "sanitize" =>
        /\ doc = Normalize(C9_Image(prev, base))
        /\ prev = <<Elem("span", ("style" :> <<"font-weight", ":", "bold">>), <<Txt(<<"x">>)>>)>>
              => doc = <<Elem("strong", NoAttrs, <<Txt(<<"x">>)>>)>>

\* a disallowed element with superscript, bold and italic hints was replaced
\* by sup > strong > em
C9_Witness ==
    /\ op = "sanitize"
    /\ \E i \in 1..Len(prev) :
          /\ prev[i].tag \in {"span", "div"}
          /\ C9_Tags(StyleOf(prev[i])) = <<"sup", "strong", "em">>
    /\ \E i \in 1..Len(doc) :
          /\ doc[i].tag = "sup"
          /\ Len(doc[i].kids) = 1 /\ doc[i].kids[1].tag = "strong"
          /\ Len(doc[i].kids[1].kids) = 1 /\ doc[i].kids[1].kids[1].tag = "em"
          /\ doc[i].kids[1].kids[1].kids = <<Txt(<<"x">>)>>

\* the tokens of a rel value read as a space-separated list
C5_Tokens(rel) == SelectSeq(Split(rel, "sp"), LAMBDA t : t # <<>>)

C5_Count(toks, tok) == Cardinality({i \in 1..Len(toks) : toks[i] = <<tok>>})

C5_Rel(n) == IF "rel" \in DOMAIN n.attrs THEN n.attrs["rel"] ELSE <<>>

\* C5: after ModeLinkAttributes.add every anchor with an href has a rel whose
\* space-separated tokens contain noopener and noreferrer each exactly once
\* and retain every token present before; rel="noopener" ends as
\* "noopener noreferrer", and so does an absent rel.
C5_RelTokens ==
    op = "linkAttributes" =>
        \A p \in Range(ElementPaths(doc)) :
            (NodeAt(doc, p).tag = "a" /\ "href" \in DOMAIN NodeAt(doc, p).attrs) =>
                /\ C5_Count(C5_Tokens(C5_Rel(NodeAt(doc, p))), "noopener") = 1
                /\ C5_Count(C5_Tokens(C5_Rel(NodeAt(doc, p))), "noreferrer") = 1
                /\ Range(C5_Tokens(C5_Rel(NodeAt(prev, p))))
                      \subseteq Range(C5_Tokens(C5_Rel(NodeAt(doc, p))))
                /\ ("rel" \notin DOMAIN NodeAt(prev, p).attrs
                    \/ NodeAt(prev, p).attrs["rel"] = <<"noopener">>)
                      => C5_Rel(NodeAt(doc, p)) = <<"noopener", "sp", "noreferrer">>

\* an h2 whose text contains 'key takeaways', case-insensitively
C6_IsHeading(n) == n.tag = "h2" /\ Includes(Lower(textContent(n)), <<"key takeaways">>)

C6_HasHeading(d) == \E e \in AllElements(d) : C6_IsHeading(e)

\* the path of the first such h2 in document order
C6_HeadPath(d) == Head(SelectSeq(ElementPaths(d), LAMBDA p : C6_IsHeading(NodeAt(d, p))))

C6_Heading(d) == NodeAt(d, C6_HeadPath(d))

\* the indices of the ul siblings that follow the heading
C6_UlIndices(d) ==
    {j \in (IndexOf(C6_HeadPath(d)) + 1)..Len(KidsAt(d, ParentPath(C6_HeadPath(d)))) :
        KidsAt(d, ParentPath(C6_HeadPath(d)))[j].tag = "ul"}

C6_Min(S) == CHOOSE x \in S : \A y \in S : x <= y

\* the li elements of the first ul sibling that follows the heading
C6_Items(d) ==
    IF C6_UlIndices(d) = {} THEN <<>>
    ELSE SelectSeq(DescendantsOf(<<KidsAt(d, ParentPath(C6_HeadPath(d)))[C6_Min(C6_UlIndices(d))]>>),
                   LAMBDA n : n.tag = "li")

C6_NoEm(n) == \A e \in Range(DescendantsOf(<<n>>)) : e.tag # "em"

\* the tags of the elements of n other than em, in document order
C6_Shape(n) ==
    SelectSeq([i \in 1..Len(DescendantsOf(<<n>>)) |-> DescendantsOf(<<n>>)[i].tag], LAMBDA t : t # "em")

C6_Same(a, b) == textContent(a) = textContent(b) /\ C6_Shape(a) = C6_Shape(b)

C6_ItemsKept ==
    /\ Len(C6_Items(doc)) = Len(C6_Items(prev))
    /\ \A i \in 1..Len(C6_Items(doc)) :
          C6_NoEm(C6_Items(doc)[i]) /\ C6_Same(C6_Items(doc)[i], C6_Items(prev)[i])

\* C6 as stated: after ModeKeyTakeaways.format the key-takeaways heading and
\* every li of the first ul sibling after it contain no em, and the text
\* content and element order of the heading and of each item are unchanged.
C6_EmRemovedAllKept ==
    (op = "keyTakeaways" /\ C6_HasHeading(prev)) =>
        /\ C6_NoEm(C6_Heading(doc))
        /\ C6_Same(C6_Heading(doc), C6_Heading(prev))
        /\ C6_ItemsKept

\* C6 amended: the heading and the items contain no em; the text content and
\* element order of each item are unchanged, and those of the heading are
\* unchanged when its trimmed text already ends with ':'.
C6_EmRemovedItemsKept ==
    (op = "keyTakeaways" /\ C6_HasHeading(prev)) =>
        /\ C6_NoEm(C6_Heading(doc))
        /\ EndsWith(Trim(textContent(C6_Heading(prev))), <<":">>)
              => C6_Same(C6_Heading(doc), C6_Heading(prev))
        /\ C6_ItemsKept

\* a heading that ends with a colon and items, both with nested em, were
\* stripped of their em elements
C6_Witness ==
    /\ op = "keyTakeaways"
    /\ C6_HasHeading(prev)
    /\ EndsWith(Trim(textContent(C6_Heading(prev))), <<":">>)
    /\ ~C6_NoEm(C6_Heading(prev))
    /\ \E i \in 1..Len(C6_Items(prev)) :
          \E e \in Range(DescendantsOf(<<C6_Items(prev)[i]>>)) :
              e.tag = "em" /\ \E f \in Range(DescendantsOf(e.kids)) : f.tag = "em"
    /\ C6_NoEm(C6_Heading(doc))

\* C7: ModeKeyTakeaways.format appends exactly one ':' to the key-takeaways
\* heading when its trimmed text T does not end with ':' (the text is then
\* T followed by ':'), and leaves the heading's text unchanged otherwise.
C7_ColonAppended ==
    (op = "keyTakeaways" /\ C6_HasHeading(prev)) =>
        IF EndsWith(Trim(textContent(C6_Heading(prev))), <<":">>)
        THEN textContent(C6_Heading(doc)) = textContent(C6_Heading(prev))
        ELSE Trim(textContent(C6_Heading(doc)))
                = Trim(textContent(C6_Heading(prev))) \o <<":">>

\* the h1 elements that are the first element sibling after the first ul
\* sibling that follows the key-takeaways heading
C8_Targets(d) ==
    IF ~C6_HasHeading(d) \/ C6_UlIndices(d) = {} THEN {}
    ELSE {p \in Range(ElementPaths(d)) :
            /\ NodeAt(d, p).tag = "h1"
            /\ ParentPath(p) = ParentPath(C6_HeadPath(d))
            /\ IndexOf(p) > C6_Min(C6_UlIndices(d))
            /\ \A m \in (C6_Min(C6_UlIndices(d)) + 1)..(IndexOf(p) - 1) :
                  ~IsElement(KidsAt(d, ParentPath(p))[m])}

\* C8: ModeH1Removal.remove removes an h1 exactly when it is the first
\* element sibling after the ul that follows the key-takeaways h2, removes
\* only that h1, and leaves the document unchanged in every other case.
C8_H1RemovedExactly ==
    op = "h1Removal" =>
        IF C8_Targets(prev) = {} THEN doc = prev
        ELSE \E p \in C8_Targets(prev) :
                doc = Normalize(ReplaceKids(prev, ParentPath(p),
                                            RemoveAt(KidsAt(prev, ParentPath(p)), IndexOf(p))))

\* the h1 after the list was removed and a second h1 behind it was kept
C8_Witness ==
    /\ op = "h1Removal"
    /\ C8_Targets(prev) # {}
    /\ Cardinality({p \in Range(ElementPaths(prev)) : NodeAt(prev, p).tag = "h1"}) = 2
    /\ Cardinality({p \in Range(ElementPaths(doc)) : NodeAt(doc, p).tag = "h1"}) = 1

\* the number prefixes of the numbered headings of d, in document order
C4_Numbers(d) ==
    SelectSeq([i \in 1..Len(DescendantsOf(d)) |->
                  IF /\ DescendantsOf(d)[i].tag \in HEADING_TAGS
                     /\ Len(textContent(DescendantsOf(d)[i])) >= 3
                     /\ SubSeq(textContent(DescendantsOf(d)[i]), 2, 3) = <<".", "sp">>
                  THEN textContent(DescendantsOf(d)[i])[1] ELSE "none"],
              LAMBDA t : t # "none")

RECURSIVE C4_Expected(_, _, _)
\* one running counter per section key, starting at 1 and increasing by one
\* per converted item
C4_Expected(d, ols, counters) ==
    IF ols = <<>> THEN <<>>
    ELSE [j \in 1..Len(ListItems(NodeAt(d, Head(ols)))) |->
             ToString(counters[SectionKey(d, Head(ols))] + j - 1)]
         \o C4_Expected(d, Tail(ols),
                        [counters EXCEPT ![SectionKey(d, Head(ols))] =
                            @ + Len(ListItems(NodeAt(d, Head(ols))))])

\* C4: ModeOlHeaderConversion.convert numbers the items of a converted
\* heading list consecutively from the section counter, k, k+1, ..., in item
\* order; a 2-item list after an h2 yields "1. " and "2. ", and two h2
\* sections each followed by a 3-item heading list both yield 1, 2, 3.
C4_ConsecutiveNumbers ==
    (op = "olHeaderConversion" /\ C4_Numbers(prev) = <<>>) =>
        /\ C4_Numbers(doc) = C4_Expected(prev, OlsToProcess(prev), [key \in 0..Len(prev) |-> 1])
        /\ prev = <<El("h2", <<Txt(<<"Section">>)>>), HeaderList(<<"One", "Two">>)>>
              => doc = <<El("h2", <<Txt(<<"Section">>)>>),
                         El("h3", <<Txt(<<"1", ".", "sp", "One">>)>>),
                         El("h3", <<Txt(<<"2", ".", "sp", "Two">>)>>)>>
        /\ (/\ Len(prev) = 4
            /\ prev[1].tag = "h2" /\ isHeaderList(prev[2]) /\ Len(ListItems(prev[2])) = 3
            /\ prev[3].tag = "h2" /\ isHeaderList(prev[4]) /\ Len(ListItems(prev[4])) = 3)
              => C4_Numbers(doc) = <<"1", "2", "3", "1", "2", "3">>

\* a p element whose sole content is one non-breaking space
C3_IsSpacingParagraph(n) == n.tag = "p" /\ n.kids = <<Txt(<<"nbsp">>)>>

\* the element children of the body and of every element, as lists
C3_SiblingLists(d) == {ElementChildren(d)} \cup {ElementChildren(e.kids) : e \in AllElements(d)}

\* C3: for an input without two consecutive spacing paragraphs, ModeSpacing.add
\* applied once or again on its own output yields a document in which no two
\* spacing paragraphs are consecutive element siblings.
C3_NoConsecutiveSpacing ==
    op = "spacing" =>
        \A k \in C3_SiblingLists(doc) :
            \A i \in 1..(Len(k) - 1) :
                ~(C3_IsSpacingParagraph(k[i]) /\ C3_IsSpacingParagraph(k[i + 1]))

\* a second application on a document that already holds the spacing
\* paragraphs the first one inserted
C3_Witness ==
    /\ op = "spacing"
    /\ steps = 2
    /\ Cardinality({p \in Range(ElementPaths(doc)) : C3_IsSpacingParagraph(NodeAt(doc, p))}) >= 2
    /\ \E p \in Range(ElementPaths(doc)) :
          /\ NodeAt(doc, p).tag \in HEADING_TAGS
          /\ PrecededBySpacing(KidsAt(doc, ParentPath(p)), IndexOf(p))

\* C11: after ModeHeadingStrong.wrap the child list of every heading that
\* has children is exactly one strong element
C11_HeadingsWrapped ==
    op = "headingStrong" =>
        \A h \in AllElements(doc) :
            (h.tag \in HEADING_TAGS /\ h.kids # <<>>)
                => Len(h.kids) = 1 /\ h.kids[1].tag = "strong"

\* C12: after HTMLCleaner.clean no br is a child of a block element, no br
\* is inside an li at any depth, and no br is the next sibling of a block
\* element
C12_NoStrayBr ==
    op = "clean" =>
        /\ \A e \in AllElements(doc) :
              /\ e.tag \in BLOCK_ELEMENTS => \A i \in 1..Len(e.kids) : e.kids[i].tag # "br"
              /\ e.tag = "li" => \A n \in AllElements(e.kids) : n.tag # "br"
        /\ \A k \in {doc} \cup {e.kids : e \in AllElements(doc)} :
              \A i \in 1..(Len(k) - 1) : ~(k[i].tag \in BLOCK_ELEMENTS /\ k[i + 1].tag = "br")

\* C13: after HTMLCleaner.clean no p is left anywhere inside an li
C13_NoParagraphInItem ==
    op = "clean" =>
        \A e \in AllElements(doc) :
            e.tag = "li" => \A n \in AllElements(e.kids) : n.tag # "p"

\* a heading whose text contains 'frequently asked questions' or 'faq'
C14_IsFaq(n) ==
    \/ Includes(Lower(Trim(textContent(n))), <<"frequently asked questions">>)
    \/ Includes(Lower(Trim(textContent(n))), <<"faq">>)

\* C14: after ModeSpacing.add the previous element sibling of every heading
\* is a spacing paragraph, except for a key-takeaways heading and for the
\* first h3 after a heading whose text contains 'faq'
C14_HeadingsSpaced ==
    op = "spacing" =>
        LET hs == SelectSeq(ElementPaths(doc), LAMBDA p : NodeAt(doc, p).tag \in HEADING_TAGS)
            Exempt(j) ==
                /\ NodeAt(doc, hs[j]).tag = "h3"
                /\ \E i \in 1..(j - 1) :
                      /\ C14_IsFaq(NodeAt(doc, hs[i]))
                      /\ \A m \in (i + 1)..(j - 1) : NodeAt(doc, hs[m]).tag # "h3"
        IN  \A j \in 1..Len(hs) :
                (/\ ~Includes(Lower(Trim(textContent(NodeAt(doc, hs[j])))), <<"key takeaways">>)
                 /\ ~Exempt(j))
                    => LET k == KidsAt(doc, ParentPath(hs[j]))
                           before == PrevElementIndex(k, IndexOf(hs[j]))
                       IN  before # 0 /\ isSpacingElement(k[before])

\* C15: after ModeSpacing.add the previous element sibling of every
\* paragraph whose trimmed, lower-cased text starts with 'sources:' is a
\* spacing paragraph, whatever element that paragraph follows
C15_SourcesSpaced ==
    op = "spacing" =>
        \A p \in Range(ElementPaths(doc)) :
            LET k == KidsAt(doc, ParentPath(p))
                before == PrevElementIndex(k, IndexOf(p))
            IN  (/\ NodeAt(doc, p).tag = "p"
                 /\ StartsWith(Lower(Trim(textContent(NodeAt(doc, p)))), <<"sources", ":">>)
                 /\ before # 0)
                    => isSpacingElement(k[before])

C16_Count(d, tags) ==
    Len(SelectSeq(ElementPaths(d), LAMBDA p : NodeAt(d, p).tag \in tags))

C16_SpacingCount(d) ==
    Len(SelectSeq(ElementPaths(d), LAMBDA p : isSpacingElement(NodeAt(d, p))))

\* the headings of the key-takeaways sections, without the strong wrappers
C16_KeyTakeawaysHeadings(d) ==
    LET RECURSIVE Unwrap(_)
        Unwrap(k) == IF Len(k) = 1 /\ k[1].tag = "strong" THEN Unwrap(k[1].kids) ELSE k
    IN  {Unwrap(h.kids) : h \in {e \in AllElements(d) :
                                    /\ e.tag \in HEADING_TAGS
                                    /\ Includes(Lower(textContent(e)), <<"key takeaways">>)}}

\* strong elements that are children of headings
C16_HeadingStrongs(d) ==
    Len(SelectSeq(ElementPaths(d),
           LAMBDA p : /\ NodeAt(d, p).tag = "strong"
                      /\ Len(p) > 1
                      /\ NodeAt(d, ParentPath(p)).tag \in HEADING_TAGS))

C16_LinksWithTargetOrRel(d) ==
    Len(SelectSeq(ElementPaths(d),
           LAMBDA p : /\ NodeAt(d, p).tag = "a"
                      /\ DOMAIN NodeAt(d, p).attrs \cap {"target", "rel"} # {}))

\* C16: ModeProcessor.process applies a transform only in the modes that
\* include it.  In shoppables and regular mode, whatever the feature flags,
\* no spacing paragraph is inserted, no h1 is removed and the key-takeaways
\* heading keeps its em tags and gets no colon; in regular mode no heading
\* gets a strong child and no link gets a target or rel attribute.
C16_TransformsOfModeOnly ==
    (op = "processMode" /\ doc # <<Null>>) =>
        /\ currentMode \in {"shoppables", "regular"} =>
              /\ C16_SpacingCount(doc) = C16_SpacingCount(prev)
              /\ C16_Count(doc, {"h1"}) = C16_Count(prev, {"h1"})
              /\ C16_KeyTakeawaysHeadings(doc) = C16_KeyTakeawaysHeadings(prev)
        /\ currentMode = "regular" =>
              /\ C16_HeadingStrongs(doc) = C16_HeadingStrongs(prev)
              /\ C16_LinksWithTargetOrRel(doc) = C16_LinksWithTargetOrRel(prev)

\* a call in shoppables mode, with the three flags of the blogs-only
\* transforms set to true, on a document that each of the three would
\* change and that the transforms of the mode do change
C16_Witness ==
    /\ op = "processMode"
    /\ currentMode = "shoppables"
    /\ featureFlags # Null
    /\ {"keyTakeaways", "h1Removal", "spacing"} \subseteq DOMAIN featureFlags
    /\ featureFlags["keyTakeaways"] /\ featureFlags["h1Removal"] /\ featureFlags["spacing"]
    /\ formatKeyTakeaways(prev) # prev
    /\ removeH1AfterKeyTakeaways(prev) # prev
    /\ addSpacing(prev) # prev
    /\ doc # prev

\* the flag of a transform: the value in the map when the map holds the
\* flag, otherwise on, except for the relative paths
C17_Enabled(features, name) ==
    IF name \in DOMAIN features THEN features[name] ELSE name # "relativePaths"

C17_Transforms(mode) ==
    IF mode = "blogs"
    THEN <<"headingStrong", "keyTakeaways", "h1Removal", "linkAttributes",
           "olHeaderConversion", "spacing", "relativePaths", "sourcesNormalize">>
    ELSE <<"headingStrong", "linkAttributes", "relativePaths",
           "olHeaderConversion", "sourcesNormalize">>

\* C17: in blogs and shoppables mode, with any map of flags or none, the
\* result is that of the list normalization followed by the transforms of
\* the mode whose flag is enabled: a flag that is not set counts as on
\* (relative paths: as off), a flag set to false removes its transform only.
C17_FlagDefaults ==
    (op = "processMode" /\ currentMode \in {"blogs", "shoppables"} /\ prev # <<>>) =>
        doc = ApplyUtilities(normalizeLists(prev),
                 SelectSeq(C17_Transforms(currentMode),
                           LAMBDA name : C17_Enabled(featureFlags, name)))

\* C18: after HTMLSanitizer.sanitize, the value of every href and src
\* attribute of the document has the scheme http, https or mailto, or starts
\* with '/' or with '#'; an attribute with any other value is gone.
C18_SafeUrlsOnly ==
    op = "sanitize" =>
        \A e \in AllElements(doc) :
            \A x \in {"href", "src"} \cap DOMAIN e.attrs :
                /\ e.attrs[x] # <<>>
                /\ Head(e.attrs[x]) \in {"http:", "https:", "mailto:", "/", "#"}

\* the cleaner throws on the html: in the walk, or in trimAnchorWhitespace
C19_CleanerThrows(html) ==
    \/ CleanChildren(html, 1, FALSE, FALSE) = <<Null>>
    \/ TrimAnchorThrows(removeBrAfterBlockElements(CleanChildren(html, 1, FALSE, FALSE)))

\* C19: a stage inside which an exception is raised returns exactly its
\* input text: the cleaner the html it was given, the mode processor what
\* the transforms after the list normalization make of the html the list
\* normalization was given, the formatter the markup it was given.
C19_StageReturnsInput ==
    domParser =>
        /\ (op = "clean" /\ C19_CleanerThrows(prev)) => doc = prev
        /\ (op = "processMode" /\ NormalizeItems(prev, 1) = <<Null>>) =>
               doc = ApplyUtilities(prev,
                        SelectSeq(IF currentMode = "regular" THEN <<>>
                                  ELSE C17_Transforms(currentMode),
                                  LAMBDA name : C17_Enabled(featureFlags, name)))
        /\ (op = "formatCompact" /\ raised) => currentHtmlText = innerHTML(prev)

\* C20: without DOMParser and document no stage throws, the sanitizer, the
\* cleaner and the mode processor return the html they were given and the
\* formatter returns the markup it was given.
C20_DegradesToInput ==
    (~domParser /\ op # "input") =>
        /\ doc # <<Null>>
        /\ doc = prev
        /\ op = "formatCompact" => currentHtmlText = innerHTML(prev)

\* C21: after ModeListNormalize.normalize, every strong inside an li whose
\* trimmed text ends with a colon has no white space after its last colon
\* and has a text node as its next sibling that starts with exactly one
\* space.
C21_ColonSpacing ==
    op = "normalizeLists" =>
        \A li \in Range(ElementPaths(doc)) :
            NodeAt(doc, li).tag = "li" =>
                \A sp \in Range(ElementPaths(NodeAt(doc, li).kids)) :
                    LET lk == NodeAt(doc, li).kids
                        strong == NodeAt(lk, sp)
                        k == KidsAt(lk, ParentPath(sp))
                        i == IndexOf(sp)
                    IN  (/\ strong.tag = "strong"
                         /\ EndsWith(Trim(textContent(strong)), <<":">>))
                            => /\ EndsWith(textContent(strong), <<":">>)
                               /\ i < Len(k)
                               /\ IsText(k[i + 1])
                               /\ k[i + 1].text[1] = "sp"
                               /\ Len(k[i + 1].text) > 1 => ~IsWs(k[i + 1].text[2])

C22_Items(d) == SelectSeq(ElementPaths(d), LAMBDA p : NodeAt(d, p).tag = "li")

\* the children of the li that are a strong with a direct em child
C22_Strongs(li) ==
    {j \in 1..Len(li.kids) :
        li.kids[j].tag = "strong" /\ \E m \in 1..Len(li.kids[j].kids) : li.kids[j].kids[m].tag = "em"}

\* C22: HTMLCleaner.clean keeps the text content of a list item that has a
\* strong with a direct em child, and what followed the em inside the strong
\* is, in its order, inside the new em after the content of the old one.
C22_NestingKeepsContent ==
    op = "clean" =>
        /\ Len(C22_Items(doc)) = Len(C22_Items(prev))
        /\ \A n \in 1..Len(C22_Items(prev)) :
              LET before == NodeAt(prev, C22_Items(prev)[n])
                  after == NodeAt(doc, C22_Items(doc)[n])
              IN  C22_Strongs(before) # {} =>
                     /\ textContent(after) = textContent(before)
                     /\ \A j \in C22_Strongs(before) :
                           LET strong == before.kids[j]
                               directEm == CHOOSE m \in 1..Len(strong.kids) :
                                              /\ strong.kids[m].tag = "em"
                                              /\ \A x \in 1..(m - 1) : strong.kids[x].tag # "em"
                           IN  \E e \in AllElements(after.kids) :
                                  /\ e.tag = "em"
                                  /\ StartsWith(textContent(e),
                                        textContent(strong.kids[directEm])
                                            \o textContentOf(SubSeq(strong.kids, directEm + 1,
                                                                    Len(strong.kids))))

RECURSIVE C23_NextList(_, _)
\* the index of the element sibling that follows index i of the child list
\* k, spacing paragraphs ignored; 0 for none
C23_NextList(k, i) ==
    IF NextElementIndex(k, i) = 0 THEN 0
    ELSE IF isSpacingElement(k[NextElementIndex(k, i)])
         THEN C23_NextList(k, NextElementIndex(k, i))
    ELSE NextElementIndex(k, i)

C23_IsHeaderListAt(k, i) == i # 0 /\ k[i].tag = "ol" /\ isHeaderList(k[i])

\* the heading lists of d that are followed by a heading list or follow one
C23_Adjacent(d) ==
    {p \in Range(ElementPaths(d)) :
        LET k == KidsAt(d, ParentPath(p))
        IN  /\ C23_IsHeaderListAt(k, IndexOf(p))
            /\ \/ C23_IsHeaderListAt(k, C23_NextList(k, IndexOf(p)))
               \/ \E i \in 1..(IndexOf(p) - 1) :
                     C23_IsHeaderListAt(k, i) /\ C23_NextList(k, i) = IndexOf(p)}

C23_HeaderLists(d) ==
    SelectSeq(ElementPaths(d), LAMBDA p : NodeAt(d, p).tag = "ol" /\ isHeaderList(NodeAt(d, p)))

\* C23: ModeOlHeaderConversion.convert leaves both heading lists of an
\* adjacent pair as they are: each is still in the document, and the document
\* has at least as many heading lists as the input had adjacent ones.
C23_AdjacentPairsKept ==
    op = "olHeaderConversion" =>
        /\ \A p \in C23_Adjacent(prev) : NodeAt(prev, p) \in AllElements(doc)
        /\ Len(C23_HeaderLists(doc)) >= Cardinality(C23_Adjacent(prev))

\* the section key of the list at path p: the position, among the top-level
\* elements, of the nearest h2 before the list with no h1 in between; 0, the
\* key of the shared counter, when there is none or the list is not a
\* top-level element
C24_Key(d, p) ==
    LET e == ElementChildren(d)
        i == Len(ElementChildren(SubSeq(d, 1, p[1])))
        h2s == {j \in 1..(i - 1) : /\ e[j].tag = "h2"
                                   /\ \A m \in (j + 1)..(i - 1) : e[m].tag \notin {"h1", "h2"}}
    IN  IF Len(p) # 1 \/ h2s = {} THEN 0 ELSE CHOOSE j \in h2s : TRUE

RECURSIVE C24_ItemsBefore(_, _, _)
\* the number of items of the first n lists of ols
C24_ItemsBefore(d, ols, n) ==
    IF n = 0 THEN 0
    ELSE Len(ListItems(NodeAt(d, ols[n]))) + C24_ItemsBefore(d, ols, n - 1)

RECURSIVE C24_NumbersOfKey(_, _, _, _, _)
\* the numbers, out of the numbers of the converted document, of the lists
\* of ols from the n-th on whose section key is key
C24_NumbersOfKey(d, ols, numbers, key, n) ==
    IF n > Len(ols) THEN <<>>
    ELSE (IF C24_Key(d, ols[n]) = key
          THEN SubSeq(numbers, C24_ItemsBefore(d, ols, n - 1) + 1, C24_ItemsBefore(d, ols, n))
          ELSE <<>>)
         \o C24_NumbersOfKey(d, ols, numbers, key, n + 1)

RECURSIVE C24_OnlyKey(_, _, _)
\* the document with a plain paragraph in the place of every heading list of
\* lists whose section key is not key
C24_OnlyKey(d, lists, key) ==
    IF lists = <<>> THEN d
    ELSE C24_OnlyKey(IF C24_Key(d, Head(lists)) = key THEN d
                     ELSE ReplaceNode(d, Head(lists), El("p", <<Txt(<<"text">>)>>)),
                     Tail(lists), key)

\* C24: in ModeOlHeaderConversion.convert the counter of a heading list is
\* that of the nearest preceding top-level h2, or the shared one when an h1
\* comes first: the first item converted under each key is numbered 1, and
\* the numbers given under a key are those the conversion gives when the
\* heading lists of every other key are not there.
C24_SectionCounters ==
    (op = "olHeaderConversion" /\ C4_Numbers(prev) = <<>>) =>
        \A key \in 0..Len(prev) :
            LET numbers == C24_NumbersOfKey(prev, OlsToProcess(prev), C4_Numbers(doc), key, 1)
            IN  /\ Len(C4_Numbers(doc)) = C24_ItemsBefore(prev, OlsToProcess(prev),
                                                          Len(OlsToProcess(prev)))
                /\ numbers # <<>> => numbers[1] = "1"
                /\ numbers = C4_Numbers(convertOlHeaders(
                                 C24_OnlyKey(prev, C23_HeaderLists(prev), key)))

\* two h2 sections with a converted heading list each
C24_Witness ==
    /\ op = "olHeaderConversion"
    /\ C4_Numbers(prev) = <<>>
    /\ \E p, q \in Range(OlsToProcess(prev)) :
          /\ C24_Key(prev, p) # 0 /\ C24_Key(prev, q) # 0
          /\ C24_Key(prev, p) # C24_Key(prev, q)
    /\ C4_Numbers(doc) # <<>>

\* C26: on every p element of a document the spacing transform, the
\* formatter and the adjacency check of the heading lists give the same
\* answer to "is this a spacing paragraph", and the answer is yes exactly
\* for a p whose content is one non-breaking space.
C26_PredicatesAgree ==
    \A e \in AllElements(doc) :
        e.tag = "p" =>
            /\ isSpacingElement(e) <=> e.kids = <<Txt(<<"nbsp">>)>>
            /\ isSpacingParagraph(e) <=> e.kids = <<Txt(<<"nbsp">>)>>
            /\ isSkippedSibling(e) <=> e.kids = <<Txt(<<"nbsp">>)>>

\* C25: in blogs mode with every transform enabled, the result of
\* ModeProcessor.process is the result of applying the transforms in the
\* order heading strong wrapping, key-takeaways formatting, stray-h1 removal,
\* link attribute injection, ordered-list-of-headings conversion, spacing
\* insertion, list-item colon normalization, sources-section normalization,
\* link path relativization.
C25_InClaimedOrder(html) ==
    Normalize(convertToRelativePaths(
        normalizeSources(
            normalizeLists(
                ApplyUtilities(html, <<"headingStrong", "keyTakeaways", "h1Removal",
                                       "linkAttributes", "olHeaderConversion", "spacing">>)))))

C25_EveryTransformEnabled ==
    featureFlags = [name \in {"headingStrong", "keyTakeaways", "h1Removal", "linkAttributes",
                              "olHeaderConversion", "spacing", "relativePaths",
                              "sourcesNormalize"} |-> TRUE]

C25_FixedOrder ==
    (op = "processMode" /\ currentMode = "blogs" /\ C25_EveryTransformEnabled /\ prev # <<>>)
        => doc = C25_InClaimedOrder(prev)

\* C27: after ModeSourcesNormalize.normalize, every paragraph whose trimmed
\* text was 'sources' or 'sources:' has as its whole content one strong
\* around one em with the text 'Sources:', every li of the first ol sibling
\* after it has one child, an em, that holds the former content of the li in
\* order, and applying the transform again changes nothing.
C27_IsSources(e) ==
    /\ e.tag = "p"
    /\ Lower(Trim(textContent(e))) \in {<<"sources">>, <<"sources", ":">>}

C27_FirstOl(k, i) ==
    IF \E j \in (i + 1)..Len(k) : k[j].tag = "ol"
    THEN CHOOSE j \in (i + 1)..Len(k) : k[j].tag = "ol" /\ \A m \in (i + 1)..(j - 1) : k[m].tag # "ol"
    ELSE 0

\* the item holds one em and, besides it, white space at most
C27_Wrapped(li) ==
    /\ Len(ElementChildren(li.kids)) = 1
    /\ ElementChildren(li.kids)[1].tag = "em"
    /\ \A j \in 1..Len(li.kids) : IsText(li.kids[j]) => Trim(li.kids[j].text) = <<>>

C28_Anchors(d) == SelectSeq(DescendantsOf(d), LAMBDA e : e.tag = "a")

C28_AnchorTextTrimmed ==
    op = "clean" =>
        /\ Len(C28_Anchors(doc)) = Len(C28_Anchors(prev))
        /\ \A i \in 1..Len(C28_Anchors(prev)) :
              textContent(C28_Anchors(doc)[i]) = Trim(textContent(C28_Anchors(prev)[i]))

\* C29: HTMLSanitizer.sanitize wraps the content of a span whose
\* vertical-align value is a subscript value (sub, -35%, -0.6) in sub and
\* never in sup, and the content of one whose value is a superscript value
\* (super, 35%, 0.6) in sup and never in sub.
C29_Tags(d) == {e.tag : e \in AllElements(d)}

C29_SupAndSubToldApart ==
    (/\ op = "sanitize"
     /\ Len(prev) = 1
     /\ prev[1].tag = "span"
     /\ "style" \in DOMAIN prev[1].attrs)
        => LET v == StyleValue(prev[1].attrs["style"], "vertical-align")
           IN  /\ v \in {<<"sub">>, <<"-", "35%">>, <<"-", "0.6">>}
                      => "sub" \in C29_Tags(doc) /\ "sup" \notin C29_Tags(doc)
               /\ v \in {<<"super">>, <<"35%">>, <<"0.6">>}
                      => "sup" \in C29_Tags(doc) /\ "sub" \notin C29_Tags(doc)

\* C30: whenever a mode change or a checkbox change runs the pipeline in
\* blogs mode, each flag passed to ModeProcessor.process is the checked
\* state of the blogs checkbox of that feature, and in shoppables mode that
\* of the shoppables checkbox, also when the two groups hold a checkbox for
\* the same feature and the two differ.
C30_FlagsOfCurrentGroup ==
    (op \in {"modeChange", "blogsFeatureChange", "shoppablesFeatureChange"} /\ prev # <<>>)
        => /\ currentMode = "blogs" =>
                 \A name \in DOMAIN checkboxes.blogsFeature :
                    featureFlags[name] = checkboxes.blogsFeature[name]
           /\ currentMode = "shoppables" =>
                 \A name \in DOMAIN checkboxes.shoppablesFeature :
                    featureFlags[name] = checkboxes.shoppablesFeature[name]

====
